---------------------------- MODULE Spec2Model ----------------------------
(***************************************************************************)
(* A model of the project catalog service: the auth routes (register,      *)
(* login), the user profile routes in their embedded and networked         *)
(* variants, and the project and review routes, over the four tables of    *)
(* the schema (users, projects, reviews, project_files).                   *)
(*                                                                         *)
(* Conventions.                                                            *)
(*  - A JavaScript string is a TLA+ string.  The two non-string values a   *)
(*    request field or a column can hold are the sentinels UNDEF           *)
(*    (undefined: the field is absent from the body) and NULL.             *)
(*  - A rating is counted in half points: 6 is the rating 3, 10 is the     *)
(*    rating 5, 5 is the non-integer rating 2.5.  The route compares the   *)
(*    rating with 1 and 5, i.e. with 2 and 10 half points.                 *)
(*  - A handler that never awaits is one action.  A handler that awaits    *)
(*    is one action per stretch of code between two awaits; its local      *)
(*    variables are an element of the bag `pending' in between.          *)
(*  - `resp' is the last response sent.                                     *)
(***************************************************************************)
EXTENDS Integers, Sequences, FiniteSets, Bags, TLC

VARIABLES
    backend,        \* which persistence backend the deployment runs on
    users,          \* table users
    userSeq,        \* last id handed out for users (AUTOINCREMENT / SERIAL)
    projects,       \* table projects
    projectSeq,     \* last id handed out for projects
    project_files,  \* table project_files
    fileSeq,        \* last id handed out for project_files
    reviews,        \* table reviews
    reviewSeq,      \* last id handed out for reviews
    tokens,         \* the identity tokens signed so far
    pending,        \* bag of the locals of the handlers suspended at an await
    resp,           \* the last response sent
    lastSub,        \* history: the last accepted review body of each (project,
                    \* reviewer), for the projects not deleted since
    deleted,        \* history: ids of the projects a DELETE answered 200 for
    loginSeen,      \* history: the distinct rejections POST /auth/login has sent
    nodeEnv,        \* process.env.NODE_ENV
    proc,           \* the server process: "running" or "exited"
    listening,      \* whether app.listen has been called
    boot,           \* where initializeSchema is: the await it is suspended at,
                    \* "done" or "failed"
    reachable,      \* whether the networked backend answers
    checkedOut,     \* number of pool clients acquired and not released
    cloudEnv,       \* which of the object-storage variables process.env holds
    cloudUp,        \* whether the object storage answers
    cloudObjects,   \* the public ids of the objects the storage holds
    call            \* the last call of an object-storage helper and how it settled

vars == <<backend, users, userSeq, projects, projectSeq, project_files, fileSeq,
          reviews, reviewSeq, tokens, pending, resp, lastSub, deleted, loginSeen,
          nodeEnv, proc, listening, boot, reachable, checkedOut,
          cloudEnv, cloudUp, cloudObjects, call>>

authVars == <<users, userSeq, tokens, pending>>
projVars == <<projects, projectSeq, project_files, fileSeq, reviews, reviewSeq>>
histVars == <<lastSub, deleted, loginSeen>>
\* the tables and the handlers suspended over them
dataVars == <<backend, users, userSeq, tokens, pending, projVars, histVars>>
cloudVars == <<cloudEnv, cloudUp, cloudObjects, call>>
envVars == <<nodeEnv, proc, listening, boot, reachable, checkedOut, cloudVars>>

\* The process is up and its server accepts requests.
Serving == proc = "running" /\ listening

-----------------------------------------------------------------------------
(* Bounds of the model.                                                    *)

\* handlers that may be suspended at an await at the same time
MaxPending == 2
\* project rows ever inserted
MaxProjects == 2
\* review rows ever inserted
MaxReviews == 2

-----------------------------------------------------------------------------
(* JavaScript values.                                                      *)

UNDEF == "<undefined>"
NULL == "<null>"

\* !v for a string-or-absent value
Falsy(v) == v \in {UNDEF, NULL, ""}

\* a || b
OrElse(a, b) == IF Falsy(a) THEN b ELSE a

\* The characters of the strings whose characters a handler looks at.
Chars(s) ==
    CASE s = "" -> <<>>
      [] s = "al" -> <<"a", "l">>
      [] s = "bob" -> <<"b", "o", "b">>
      [] s = "a@b.c" -> <<"a", "@", "b", ".", "c">>
      [] s = "c@d.e" -> <<"c", "@", "d", ".", "e">>
      [] s = "   " -> <<" ", " ", " ">>
      [] s = "a" -> <<"a">>
      [] s = "B." -> <<"B", ".">>
      [] s = "Al" -> <<"A", "l">>

\* [^\s@]
NotSpaceNorAt(c) == c \notin {" ", "@"}

\* /^[^\s@]+@[^\s@]+\.[^\s@]+$/.test(s): one "@" at i, a "." at j with at
\* least one character before i, between i and j, and after j, and no other
\* "@" and no white space anywhere.
EmailRegexTest(s) ==
    LET cs == Chars(s)
        n == Len(cs)
    IN  \E i \in 1..n : \E j \in 1..n :
            /\ 1 < i /\ i + 1 < j /\ j < n
            /\ cs[i] = "@" /\ cs[j] = "."
            /\ \A k \in 1..n : k # i => NotSpaceNorAt(cs[k])

\* s.trim() === ""
TrimIsEmpty(s) == \A k \in 1..Len(Chars(s)) : Chars(s)[k] = " "

\* bcrypt.hash(password, 10) and bcrypt.compare(password, hash)
BcryptHash(password) == "$2b$10$" \o password
BcryptCompare(password, hash) == hash = BcryptHash(password)

-----------------------------------------------------------------------------
(* Request inputs.                                                         *)

\* username, email and login identifier values of the requests
Idents == {UNDEF, "al", "a@b.c", "c@d.e"}
\* password values of the requests
Passwords == {"short", "secret", "hunter2"}

\* a handler may start (and then suspend) while fewer than MaxPending are suspended
CanSuspend == BagCardinality(pending) < MaxPending
Suspend(p) == pending (+) SetToBag({p})
Resume(p) == pending (-) SetToBag({p})
Suspended == BagToSet(pending)

-----------------------------------------------------------------------------
(* Tables and their constraints.                                           *)

\* A key that is one more than the largest key in the table (a rowid key
\* declared without AUTOINCREMENT): the key of a deleted last row comes back.
MaxRowidPlusOne(seq, ids) ==
    IF ids = {} THEN 1 ELSE (CHOOSE i \in ids : \A j \in ids : j <= i) + 1

\* INTEGER PRIMARY KEY AUTOINCREMENT: one more than the largest key the
\* table has ever held, `seq', whatever rows are left in it.
NextId(seq, ids) == seq + 1

\* The users table without its two UNIQUE constraints.
UsersUniqueDropped(r) == FALSE

\* users.username UNIQUE, users.email UNIQUE: the statement that would leave
\* row `r' in the table fails when another row holds its username or email.
UsersUniqueViolated(r) ==
    \E u \in users : u.id # r.id /\ (u.username = r.username \/ u.email = r.email)

\* A token signed for the request's identifier in place of the username.
JwtSignEmailTwice(id, username, email) ==
    [id |-> id, username |-> email, email |-> email, sig |-> "valid"]

\* jwt.sign({id, username, email}, JWT_SECRET, {expiresIn: "7d"})
JwtSign(id, username, email) ==
    [id |-> id, username |-> username, email |-> email, sig |-> "valid"]

\* res.status(s).json({error: e})
ErrorBody(e) == [error |-> e]

-----------------------------------------------------------------------------
(* POST /auth/register                                                     *)

RegisterReq(username, email, password) ==
    [username |-> username, email |-> email, password |-> password]

\* The 400 the validation answers with, "" when the body passes.
RegisterValidationError(username, email, password) ==
    IF Falsy(username) \/ Falsy(email) \/ Falsy(password)
        THEN "Username, email, and password are required"
    ELSE IF Len(username) < 3
        THEN "Username must be at least 3 characters"
    ELSE IF Len(password) < 6
        THEN "Password must be at least 6 characters"
    ELSE IF ~EmailRegexTest(email)
        THEN "Invalid email format"
    ELSE ""

\* SELECT id FROM users WHERE email = ? OR username = ?
RegisterExisting(email, username) ==
    {u \in users : u.email = email \/ u.username = username}

\* From the start of the handler to `await bcrypt.hash'.
RegisterBegin(username, email, password) ==
    /\ Serving
    /\ CanSuspend
    /\ LET err == RegisterValidationError(username, email, password)
           req == RegisterReq(username, email, password)
       IN  IF err # ""
             THEN /\ resp' = [op |-> "register", status |-> 400, body |-> ErrorBody(err),
                              insertTried |-> FALSE, heldAtInsert |-> FALSE]
                  /\ UNCHANGED pending
           ELSE IF RegisterExisting(email, username) # {}
             THEN /\ resp' = [op |-> "register", status |-> 409,
                              body |-> ErrorBody("Username or email already exists"),
                              insertTried |-> FALSE, heldAtInsert |-> FALSE]
                  /\ UNCHANGED pending
           ELSE /\ pending' = Suspend([op |-> "register", req |-> req])
                /\ UNCHANGED resp
    /\ UNCHANGED <<backend, envVars, users, userSeq, tokens, projVars, histVars>>

\* From the resolution of `await bcrypt.hash' to the response.
RegisterFinish(p) ==
    /\ Serving
    /\ p.op = "register"
    /\ LET req == p.req
           row == [id |-> NextId(userSeq, {u.id : u \in users}), username |-> req.username, email |-> req.email,
                   password |-> BcryptHash(req.password), full_name |-> NULL,
                   profile_picture |-> NULL, bio |-> NULL]
           held == \E u \in users : u.username = req.username \/ u.email = req.email
           token == JwtSign(row.id, req.username, req.email)
       IN  IF UsersUniqueViolated(row)
             THEN \* the INSERT throws; the catch answers 500
                  /\ resp' = [op |-> "register", status |-> 500,
                              body |-> ErrorBody("Registration failed. Please try again."),
                              insertTried |-> TRUE, heldAtInsert |-> held]
                  /\ UNCHANGED <<users, userSeq, tokens>>
             ELSE /\ users' = users \cup {row}
                  /\ userSeq' = row.id
                  /\ tokens' = tokens \cup {token}
                  /\ resp' = [op |-> "register", status |-> 201,
                              body |-> [message |-> "Registration successful", token |-> token,
                                        user |-> [id |-> row.id, username |-> req.username,
                                                  email |-> req.email]],
                              insertTried |-> TRUE, heldAtInsert |-> held]
    /\ pending' = Resume(p)
    /\ UNCHANGED <<backend, envVars, projVars, histVars>>

-----------------------------------------------------------------------------
(* POST /auth/login                                                        *)

LoginReq(email, password) == [email |-> email, password |-> password]

\* SELECT * FROM users WHERE email = ? OR username = ?  (bound to email, email)
LoginMatches(email) == {u \in users : u.email = email \/ u.username = email}

\* The users these credentials belong to: the identifier is the user's email
\* or username and the password is the one the user's hash was made from.
Rightful(email, password) ==
    {u \in users : /\ (u.email = email \/ u.username = email)
                   /\ u.password = BcryptHash(password)}

LoginRejected == ErrorBody("Invalid email/username or password")

\* The response when the query finds no row.
LoginUnknownResponse == [status |-> 401, body |-> LoginRejected]

\* A rejection that names the password as the reason.
LoginWrongPasswordTold == [status |-> 401, body |-> ErrorBody("Invalid password")]

\* The response when bcrypt.compare answers false.
LoginWrongPasswordResponse == [status |-> 401, body |-> LoginRejected]

\* From the start of the handler to `await bcrypt.compare'.  The statement's
\* get() returns the first row the query yields; the query has no ORDER BY,
\* so with several matching rows it is any of them.
LoginBegin(email, password) ==
    /\ Serving
    /\ CanSuspend
    /\ LET req == LoginReq(email, password)
       IN  IF Falsy(email) \/ Falsy(password)
             THEN /\ resp' = [op |-> "login", status |-> 400,
                              body |-> ErrorBody("Email and password are required"),
                              rightful |-> {}]
                  /\ UNCHANGED <<pending, loginSeen>>
           ELSE IF LoginMatches(email) = {}
             THEN /\ resp' = [op |-> "login", status |-> LoginUnknownResponse.status,
                              body |-> LoginUnknownResponse.body,
                              rightful |-> {}]
                  /\ loginSeen' = loginSeen \cup
                        {[why |-> "unknown", status |-> LoginUnknownResponse.status,
                          body |-> LoginUnknownResponse.body]}
                  /\ UNCHANGED pending
           ELSE /\ \E user \in LoginMatches(email) :
                      pending' = Suspend([op |-> "login", req |-> req, user |-> user,
                                          rightful |-> {u.id : u \in Rightful(email, password)}])
                /\ UNCHANGED <<resp, loginSeen>>
    /\ UNCHANGED <<backend, envVars, users, userSeq, tokens, projVars, lastSub, deleted>>

\* From the resolution of `await bcrypt.compare' to the response.
LoginFinish(p) ==
    /\ Serving
    /\ p.op = "login"
    /\ LET req == p.req
           user == p.user
           token == JwtSign(user.id, user.username, user.email)
       IN  IF ~BcryptCompare(req.password, user.password)
             THEN /\ resp' = [op |-> "login", status |-> LoginWrongPasswordResponse.status,
                              body |-> LoginWrongPasswordResponse.body,
                              rightful |-> p.rightful]
                  /\ loginSeen' = loginSeen \cup
                        {[why |-> "wrong password",
                          status |-> LoginWrongPasswordResponse.status,
                          body |-> LoginWrongPasswordResponse.body]}
                  /\ UNCHANGED tokens
             ELSE /\ resp' = [op |-> "login", status |-> 200,
                              body |-> [message |-> "Login successful", token |-> token,
                                        user |-> [id |-> user.id, username |-> user.username,
                                                  email |-> user.email]],
                              rightful |-> p.rightful,
                              matched |-> user]
                  /\ tokens' = tokens \cup {token}
                  /\ UNCHANGED loginSeen
    /\ pending' = Resume(p)
    /\ UNCHANGED <<backend, envVars, users, userSeq, projVars, lastSub, deleted>>

-----------------------------------------------------------------------------
(* GET /auth/me                                                            *)

\* a token the service did not sign, and one it signed that has expired
ForgedToken == [id |-> 1, username |-> "a@b.c", email |-> "c@d.e", sig |-> "forged"]
ExpiredToken == [id |-> 1, username |-> "a@b.c", email |-> "c@d.e", sig |-> "expired"]

\* jwt.verify(token, JWT_SECRET) returns the claims; it throws otherwise
JwtVerifies(token) == token.sig = "valid"

\* SELECT id, username, email, created_at FROM users WHERE id = ?
PublicIdentity(u) == [id |-> u.id, username |-> u.username, email |-> u.email]

\* `header' is the token of the Authorization header, or the value that
\* stands for its absence (sig = "none").
GetAuthMe(header) ==
    /\ Serving
    /\ IF header.sig = "none"
         THEN resp' = [op |-> "authMe", presented |-> header.sig, status |-> 401,
                       body |-> ErrorBody("No token provided")]
       ELSE IF ~JwtVerifies(header)
         THEN resp' = [op |-> "authMe", presented |-> header.sig, status |-> 403,
                       body |-> ErrorBody("Invalid token")]
       ELSE IF {u \in users : u.id = header.id} = {}
         THEN resp' = [op |-> "authMe", presented |-> header.sig, status |-> 404,
                       body |-> ErrorBody("User not found")]
       ELSE \E u \in {v \in users : v.id = header.id} :
              resp' = [op |-> "authMe", presented |-> header.sig, status |-> 200,
                       body |-> [user |-> PublicIdentity(u)]]
    /\ UNCHANGED <<backend, envVars, users, userSeq, tokens, pending, projects, projectSeq,
                   project_files, fileSeq, reviews, reviewSeq, lastSub, deleted, loginSeen>>

-----------------------------------------------------------------------------
(* The authenticateToken middleware.                                       *)

NoToken == [id |-> 0, username |-> "", email |-> "", sig |-> "none"]

\* what the requests carry in their Authorization header: a token the
\* service signed, or nothing
Credentials == tokens \cup {NoToken}

\* "" when the token verifies (req.user is then the token's claims), else
\* the AuthError the middleware answers with.
AuthenticateError(cred) ==
    IF cred.sig = "none" THEN "missing token"
    ELSE IF cred.sig # "valid" THEN "invalid token"
    ELSE ""

AuthFailure(op, cred) ==
    [op |-> op, status |-> 401, body |-> ErrorBody(AuthenticateError(cred))]

\* The middleware answers a request to route `op' itself; the handler
\* behind it does not run.
Unauthenticated(op, cred) ==
    /\ Serving
    /\ AuthenticateError(cred) # ""
    /\ resp' = AuthFailure(op, cred)
    /\ UNCHANGED <<backend, envVars, users, userSeq, tokens, pending, projects, projectSeq,
                   project_files, fileSeq, reviews, reviewSeq, lastSub, deleted, loginSeen>>

\* The middleware calls the handler, with req.user = cred.
Authenticated(cred) == AuthenticateError(cred) = ""

-----------------------------------------------------------------------------
(* PUT /users/me                                                           *)

\* the bodies of the profile updates
ProfileBodies ==
    { [username |-> "a@b.c", full_name |-> UNDEF, bio |-> UNDEF],
      [username |-> "bob", full_name |-> "Al", bio |-> UNDEF],
      [username |-> UNDEF, full_name |-> UNDEF, bio |-> "hi"] }

\* req.file: no file, or an image that passes the upload filter
AvatarFiles == {UNDEF, "me.png"}

\* SELECT * in place of the list of columns.
PrivateProfileSelectStar(u) == u

\* SELECT id, username, email, full_name, profile_picture, bio, created_at
PrivateProfile(u) ==
    [id |-> u.id, username |-> u.username, email |-> u.email, full_name |-> u.full_name,
     profile_picture |-> u.profile_picture, bio |-> u.bio]

\* SELECT * FROM users WHERE id = ?
UserById(id) == {u \in users : u.id = id}

\* SELECT id FROM users WHERE username = ? AND id != ?
UsernameTakenByOther(username, id) ==
    \E u \in users : u.username = username /\ u.id # id

\* UPDATE users SET username = ?, full_name = ?, bio = ?, profile_picture = ?
\* WHERE id = ?  with the values both variants bind
ProfileUpdateRow(row, currentUser, body, profilePicture) ==
    [row EXCEPT !.username = OrElse(body.username, currentUser.username),
                !.full_name = OrElse(body.full_name, currentUser.full_name),
                !.bio = OrElse(body.bio, currentUser.bio),
                !.profile_picture = profilePicture]

\* A pool.query rejects while the backend does not answer; the handler's
\* catch block answers for it.
QueryRejects == ~reachable

\* profilePicture taken from the uploaded file, as the embedded variant does.
NetProfilePictureFromFile(currentUser, file) ==
    IF file # UNDEF THEN "/uploads/avatars/" \o file ELSE currentUser.profile_picture

\* let profilePicture = currentUser.profile_picture; if (req.file) { ... }:
\* both branches of the test of CLOUDINARY_URL only log a warning.
NetProfilePicture(currentUser, file) ==
    IF file # UNDEF
      THEN IF cloudEnv.CLOUDINARY_URL THEN currentUser.profile_picture
           ELSE currentUser.profile_picture
    ELSE currentUser.profile_picture

\* details is err.message in development and undefined, which JSON leaves
\* out, anywhere else.
NetPutMeFailed ==
    [op |-> "putMe", status |-> 500,
     body |-> IF nodeEnv = "development"
                THEN [error |-> "Failed to update profile", details |-> "err.message"]
              ELSE ErrorBody("Failed to update profile")]

\* The embedded variant: the whole handler runs without an await.
\* What the embedded handler answers and what it leaves in the table users.
PutMeEmbeddedOutcome(cred, body, file) ==
    IF UserById(cred.id) = {}
      THEN [resp |-> [op |-> "putMe", status |-> 404, body |-> ErrorBody("User not found")],
            users |-> users]
    ELSE LET currentUser == CHOOSE u \in UserById(cred.id) : TRUE
             profilePicture == IF file # UNDEF THEN "/uploads/avatars/" \o file
                               ELSE currentUser.profile_picture
             row == ProfileUpdateRow(currentUser, currentUser, body, profilePicture)
         IN  IF /\ ~Falsy(body.username)
                /\ body.username # currentUser.username
                /\ UsernameTakenByOther(body.username, cred.id)
               THEN [resp |-> [op |-> "putMe", status |-> 400,
                               body |-> ErrorBody("Username already taken")],
                     users |-> users]
             ELSE IF UsersUniqueViolated(row)
               THEN [resp |-> [op |-> "putMe", status |-> 500,
                               body |-> ErrorBody("Failed to update profile")],
                     users |-> users]
             ELSE [resp |-> [op |-> "putMe", status |-> 200,
                             body |-> [message |-> "Profile updated successfully",
                                       user |-> PrivateProfile(row)]],
                   users |-> (users \ {currentUser}) \cup {row}]

PutMeEmbedded(cred, body, file) ==
    /\ Serving
    /\ backend = "embedded"
    /\ Authenticated(cred)
    /\ resp' = PutMeEmbeddedOutcome(cred, body, file).resp
    /\ users' = PutMeEmbeddedOutcome(cred, body, file).users
    /\ UNCHANGED <<backend, envVars, userSeq, tokens, pending, projVars, histVars>>

\* The networked variant, from the start of the handler to the result of
\* the first query (SELECT * FROM users WHERE id = $1).
NetPutMeBegin(cred, body, file) ==
    /\ Serving
    /\ backend = "networked"
    /\ CanSuspend
    /\ Authenticated(cred)
    /\ LET req == [body |-> body, file |-> file]
       IN  IF Falsy(body.username) \/ TrimIsEmpty(body.username)
             THEN /\ resp' = [op |-> "putMe", status |-> 400,
                              body |-> ErrorBody("Username is required")]
                  /\ UNCHANGED pending
           ELSE IF QueryRejects
             THEN /\ resp' = NetPutMeFailed
                  /\ UNCHANGED pending
           ELSE IF UserById(cred.id) = {}
             THEN /\ resp' = [op |-> "putMe", status |-> 404,
                              body |-> ErrorBody("User not found")]
                  /\ UNCHANGED pending
           ELSE LET currentUser == CHOOSE u \in UserById(cred.id) : TRUE
                IN  /\ pending' = Suspend(
                          [op |-> "putMe", cred |-> cred, req |-> req,
                           currentUser |-> currentUser,
                           at |-> IF body.username # currentUser.username
                                    THEN "check" ELSE "update"])
                    /\ UNCHANGED resp
    /\ UNCHANGED <<backend, envVars, users, userSeq, tokens, projVars, histVars>>

\* The result of SELECT id FROM users WHERE username = $1 AND id != $2.
NetPutMeCheck(p) ==
    /\ Serving
    /\ p.op = "putMe"
    /\ p.at = "check"
    /\ IF QueryRejects
         THEN /\ resp' = NetPutMeFailed
              /\ pending' = Resume(p)
       ELSE IF UsernameTakenByOther(p.req.body.username, p.cred.id)
         THEN /\ resp' = [op |-> "putMe", status |-> 400,
                          body |-> ErrorBody("Username already taken")]
              /\ pending' = Resume(p)
         ELSE /\ pending' = Suspend([p EXCEPT !.at = "update"]) (-) SetToBag({p})
              /\ UNCHANGED resp
    /\ UNCHANGED <<backend, envVars, users, userSeq, tokens, projVars, histVars>>

\* The UPDATE.  An uploaded file changes nothing: in either branch on
\* CLOUDINARY_URL the handler only logs and keeps currentUser.profile_picture.
NetPutMeUpdate(p) ==
    /\ Serving
    /\ p.op = "putMe"
    /\ p.at = "update"
    /\ LET profilePicture == NetProfilePicture(p.currentUser, p.req.file)
       IN  \E stored \in UserById(p.cred.id) :
             LET row == ProfileUpdateRow(stored, p.currentUser, p.req.body, profilePicture)
             IN  IF QueryRejects \/ UsersUniqueViolated(row)
                   THEN \* the query rejects; the catch answers 500
                        /\ resp' = NetPutMeFailed
                        /\ pending' = Resume(p)
                        /\ UNCHANGED users
                   ELSE /\ users' = (users \ {stored}) \cup {row}
                        /\ pending' = Suspend([p EXCEPT !.at = "respond"]) (-) SetToBag({p})
                        /\ UNCHANGED resp
    /\ UNCHANGED <<backend, envVars, userSeq, tokens, projVars, histVars>>

\* The final SELECT and the response.
NetPutMeRespond(p) ==
    /\ Serving
    /\ p.op = "putMe"
    /\ p.at = "respond"
    /\ IF QueryRejects
         THEN resp' = NetPutMeFailed
       ELSE \E stored \in UserById(p.cred.id) :
              resp' = [op |-> "putMe", status |-> 200,
                       body |-> [message |-> "Profile updated successfully",
                                 user |-> PrivateProfile(stored)]]
    /\ pending' = Resume(p)
    /\ UNCHANGED <<backend, envVars, users, userSeq, tokens, projVars, histVars>>

-----------------------------------------------------------------------------
(* The project routes (embedded backend; no handler awaits).               *)

\* What better-sqlite3 binds for a parameter: undefined is bound as NULL.
Bind(v) == IF v = UNDEF THEN NULL ELSE v

\* the bodies of POST /projects and PUT /projects/:id
ProjectBodies ==
    { [title |-> "abc", description |-> "long enough", section |-> "A",
       group_number |-> "1", full_name |-> "Al", matricule |-> "m1"],
      [title |-> "abc", description |-> "long enough", section |-> UNDEF,
       group_number |-> UNDEF, full_name |-> UNDEF, matricule |-> UNDEF],
      [title |-> "ab", description |-> "long enough", section |-> "A",
       group_number |-> "1", full_name |-> "Al", matricule |-> "m1"] }

\* req.file of POST /projects: no file, or the name multer stored it under
ProjectFiles == {UNDEF, "project-1.pdf"}

\* the :id of a request: the ids a project can have, and one it cannot
ProjectIds == 1..(MaxProjects + 1)

\* SELECT * FROM projects WHERE id = ?
ProjectById(id) == {p \in projects : p.id = id}

FilesOf(id) == {f \in project_files : f.project_id = id}
ReviewsOf(id) == {r \in reviews : r.project_id = id}

\* The row a LEFT JOIN pairs a project with when the joined table has none.
NoRow == [id |-> NULL]

\* FROM projects LEFT JOIN project_files ... LEFT JOIN reviews ...
\* WHERE projects.id = id: one row per (attachment, review) pair.
Joined(id) ==
    (IF FilesOf(id) = {} THEN {NoRow} ELSE FilesOf(id))
        \X (IF ReviewsOf(id) = {} THEN {NoRow} ELSE ReviewsOf(id))

RECURSIVE SumRating(_)
SumRating(rows) ==
    IF rows = {} THEN 0
    ELSE LET j == CHOOSE x \in rows : TRUE
         IN  j[2].rating + SumRating(rows \ {j})

\* COALESCE(AVG(reviews.rating), 0): the quotient num / den, in half points.
AvgRating(id) ==
    LET rated == {j \in Joined(id) : j[2] # NoRow}
    IN  IF rated = {} THEN [num |-> 0, den |-> 1]
        ELSE [num |-> SumRating(rated), den |-> Cardinality(rated)]

\* COUNT(*) in place of COUNT(reviews.id).
CountStar(id) == Cardinality(Joined(id))

\* COUNT(reviews.id)
ReviewCount(id) == Cardinality({j \in Joined(id) : j[2] # NoRow})

\* The row of the aggregate query for project p, GROUP BY projects.id.  The
\* bare column project_files.file_path is taken from one row of the group.
ProjectSummaries(p) ==
    { [id |-> p.id, title |-> p.title, description |-> p.description,
       section |-> p.section, group_number |-> p.group_number,
       full_name |-> p.full_name, matricule |-> p.matricule,
       author_name |-> u.username, author_id |-> u.id,
       file_path |-> IF j[1] = NoRow THEN NULL ELSE j[1].file_path,
       avg_rating |-> AvgRating(p.id), review_count |-> ReviewCount(p.id)]
      : u \in {a \in users : a.id = p.author_id}, j \in Joined(p.id) }

\* GET /projects/:id: the responses the handler can send in this state.
GetProjectResponses(id) ==
    LET rows == UNION {ProjectSummaries(p) : p \in ProjectById(id)}
    IN  IF rows = {}
          THEN {[op |-> "getProject", id |-> id, status |-> 404,
                 body |-> ErrorBody("Project not found")]}
        ELSE {[op |-> "getProject", id |-> id, status |-> 200, body |-> [project |-> row]]
              : row \in rows}

GetProject(id) ==
    /\ Serving
    /\ resp' \in GetProjectResponses(id)
    /\ UNCHANGED <<backend, envVars, authVars, projVars, histVars>>

\* the section and group values of GET /projects?section=&group=
SectionFilters == {UNDEF, "A"}
GroupFilters == {UNDEF, "1"}

\* GET /projects: the rows of the list, one per project that passes the
\* conjunction of the filters given.  (The order of the list is not modelled.)
ListedProjects(section, group) ==
    {p \in projects : /\ Falsy(section) \/ p.section = section
                      /\ Falsy(group) \/ p.group_number = group}

ListProjects(section, group) ==
    /\ Serving
    /\ \E pick \in [ListedProjects(section, group) -> UNION {ProjectSummaries(p) : p \in projects}] :
          /\ \A p \in ListedProjects(section, group) : pick[p] \in ProjectSummaries(p)
          /\ resp' = [op |-> "listProjects", status |-> 200,
                      body |-> [projects |-> {pick[p] : p \in ListedProjects(section, group)}]]
    /\ UNCHANGED <<backend, envVars, authVars, projVars, histVars>>

\* POST /projects
CreateValidationError(body) ==
    IF Falsy(body.title) \/ Falsy(body.description)
        THEN "Title and description are required"
    ELSE IF Len(body.title) < 3
        THEN "Title must be at least 3 characters"
    ELSE IF Len(body.description) < 10
        THEN "Description must be at least 10 characters"
    ELSE ""

CreateProject(cred, body, file) ==
    /\ Serving
    /\ projectSeq < MaxProjects
    /\ Authenticated(cred)
    /\ IF CreateValidationError(body) # ""
         THEN /\ resp' = [op |-> "createProject", status |-> 400,
                          body |-> ErrorBody(CreateValidationError(body))]
              /\ UNCHANGED <<projects, projectSeq, project_files, fileSeq>>
       ELSE IF UserById(cred.id) = {}
         THEN \* FOREIGN KEY (author_id) REFERENCES users(id): the INSERT throws
              /\ resp' = [op |-> "createProject", status |-> 500,
                          body |-> ErrorBody("Failed to create project")]
              /\ UNCHANGED <<projects, projectSeq, project_files, fileSeq>>
       ELSE LET projectId == NextId(projectSeq, {p.id : p \in projects})
                row == [id |-> projectId, title |-> body.title,
                        description |-> body.description, author_id |-> cred.id,
                        section |-> OrElse(body.section, NULL),
                        group_number |-> OrElse(body.group_number, NULL),
                        full_name |-> OrElse(body.full_name, NULL),
                        matricule |-> OrElse(body.matricule, NULL)]
                fileRow == [id |-> NextId(fileSeq, {f.id : f \in project_files}),
                            project_id |-> projectId,
                            file_path |-> "/uploads/" \o file]
                author == CHOOSE u \in UserById(cred.id) : TRUE
            IN  /\ projects' = projects \cup {row}
                /\ projectSeq' = projectId
                /\ IF file # UNDEF
                     THEN /\ project_files' = project_files \cup {fileRow}
                          /\ fileSeq' = fileRow.id
                     ELSE UNCHANGED <<project_files, fileSeq>>
                /\ resp' = [op |-> "createProject", status |-> 201,
                            body |-> [message |-> "Project created successfully",
                                      project |-> [row |-> row,
                                                   author_name |-> author.username,
                                                   file_path |-> IF file # UNDEF
                                                                   THEN fileRow.file_path
                                                                   ELSE NULL]]]
    /\ UNCHANGED <<backend, envVars, authVars, reviews, reviewSeq, histVars>>

\* A handler that lets every authenticated user through.
AnyoneMayWrite(project, cred) == FALSE

\* project.author_id !== req.user.id
NotTheAuthor(project, cred) == project.author_id # cred.id

\* An UPDATE that keeps the old value of a column the body omits.
UpdatedRowKeepingAbsent(project, body) ==
    [project EXCEPT !.title = OrElse(body.title, project.title),
                    !.description = OrElse(body.description, project.description),
                    !.section = OrElse(body.section, project.section),
                    !.group_number = OrElse(body.group_number, project.group_number),
                    !.full_name = OrElse(body.full_name, project.full_name),
                    !.matricule = OrElse(body.matricule, project.matricule)]

\* UPDATE projects SET title = ?, description = ?, section = ?,
\* group_number = ?, full_name = ?, matricule = ? WHERE id = ?
UpdatedRow(project, body) ==
    [project EXCEPT !.title = Bind(body.title),
                    !.description = Bind(body.description),
                    !.section = Bind(body.section),
                    !.group_number = Bind(body.group_number),
                    !.full_name = Bind(body.full_name),
                    !.matricule = Bind(body.matricule)]

\* PUT /projects/:id
UpdateProject(cred, id, body) ==
    /\ Serving
    /\ Authenticated(cred)
    /\ IF ProjectById(id) = {}
         THEN /\ resp' = [op |-> "updateProject", status |-> 404,
                          body |-> ErrorBody("Project not found")]
              /\ UNCHANGED projects
       ELSE LET project == CHOOSE p \in ProjectById(id) : TRUE
                row == UpdatedRow(project, body)
            IN  IF NotTheAuthor(project, cred)
                  THEN /\ resp' = [op |-> "updateProject", status |-> 403,
                                   body |-> ErrorBody("You can only edit your own projects")]
                       /\ UNCHANGED projects
                ELSE IF row.title = NULL \/ row.description = NULL
                  THEN \* title TEXT NOT NULL, description TEXT NOT NULL: the UPDATE throws
                       /\ resp' = [op |-> "updateProject", status |-> 500,
                                   body |-> ErrorBody("Failed to update project")]
                       /\ UNCHANGED projects
                ELSE /\ projects' = (projects \ {project}) \cup {row}
                     /\ resp' = [op |-> "updateProject", status |-> 200,
                                 body |-> [message |-> "Project updated successfully"]]
    /\ UNCHANGED <<backend, envVars, authVars, projectSeq, project_files, fileSeq, reviews,
                   reviewSeq, histVars>>

\* DELETE /projects/:id
DeleteProject(cred, id) ==
    /\ Serving
    /\ Authenticated(cred)
    /\ IF ProjectById(id) = {}
         THEN /\ resp' = [op |-> "deleteProject", status |-> 404,
                          body |-> ErrorBody("Project not found")]
              /\ UNCHANGED <<projects, project_files, reviews, deleted, lastSub>>
       ELSE LET project == CHOOSE p \in ProjectById(id) : TRUE
            IN  IF NotTheAuthor(project, cred)
                  THEN /\ resp' = [op |-> "deleteProject", status |-> 403,
                                   body |-> ErrorBody("You can only delete your own projects")]
                       /\ UNCHANGED <<projects, project_files, reviews, deleted, lastSub>>
                ELSE /\ reviews' = reviews \ ReviewsOf(id)
                     /\ project_files' = project_files \ FilesOf(id)
                     /\ projects' = projects \ ProjectById(id)
                     /\ deleted' = deleted \cup {id}
                     /\ lastSub' = {s \in lastSub : s.project_id # id}
                     /\ resp' = [op |-> "deleteProject", status |-> 200,
                                 body |-> [message |-> "Project deleted successfully"]]
    /\ UNCHANGED <<backend, envVars, authVars, projectSeq, fileSeq, reviewSeq, loginSeen>>

\* The three tables after the first n of the handler's DELETE statements
\* when the row of projects goes first and its dependents after it, on a
\* database that does not hold the foreign keys.
AfterDeletesProjectFirst(id, n) ==
    [projects |-> IF n >= 1 THEN projects \ ProjectById(id) ELSE projects,
     project_files |-> IF n >= 2 THEN project_files \ FilesOf(id) ELSE project_files,
     reviews |-> IF n >= 3 THEN reviews \ ReviewsOf(id) ELSE reviews]

\* The three tables after the first n of the handler's DELETE statements:
\* reviews, then project_files, then projects.  No statement runs into a
\* foreign key: the rows that refer to the project are gone before its row.
AfterDeletes(id, n) ==
    [reviews |-> IF n >= 1 THEN reviews \ ReviewsOf(id) ELSE reviews,
     project_files |-> IF n >= 2 THEN project_files \ FilesOf(id) ELSE project_files,
     projects |-> IF n >= 3 THEN projects \ ProjectById(id) ELSE projects]

\* DELETE /projects/:id by the author when the statement after the first n
\* DELETEs throws (the database file is locked, the disk is full, ...): the
\* statements are not in a transaction, the first n stay done, the catch
\* answers 500.
DeleteProjectFailing(cred, id, n) ==
    /\ Serving
    /\ Authenticated(cred)
    /\ n \in 0..2
    /\ ProjectById(id) # {}
    /\ \A project \in ProjectById(id) : ~NotTheAuthor(project, cred)
    /\ reviews' = AfterDeletes(id, n).reviews
    /\ project_files' = AfterDeletes(id, n).project_files
    /\ projects' = AfterDeletes(id, n).projects
    /\ lastSub' = IF n >= 1 THEN {sub \in lastSub : sub.project_id # id} ELSE lastSub
    /\ resp' = [op |-> "deleteProject", status |-> 500,
                body |-> ErrorBody("Failed to delete project"),
                id |-> id, done |-> n, reviewsDeleted |-> Cardinality(reviews \ reviews')]
    /\ UNCHANGED <<backend, envVars, authVars, projectSeq, fileSeq, reviewSeq, deleted,
                   loginSeen>>

\* POST /projects when one of its statements throws: the INSERT INTO
\* projects (n = 0), the INSERT INTO project_files (n = 1, with a file) or
\* the final SELECT (n = 2).  The statements before it stay done.
CreateProjectFailing(cred, body, file, n) ==
    /\ Serving
    /\ projectSeq < MaxProjects
    /\ Authenticated(cred)
    /\ CreateValidationError(body) = ""
    /\ UserById(cred.id) # {}
    /\ n \in 0..2
    /\ n = 1 => file # UNDEF
    /\ LET projectId == NextId(projectSeq, {p.id : p \in projects})
           row == [id |-> projectId, title |-> body.title,
                   description |-> body.description, author_id |-> cred.id,
                   section |-> OrElse(body.section, NULL),
                   group_number |-> OrElse(body.group_number, NULL),
                   full_name |-> OrElse(body.full_name, NULL),
                   matricule |-> OrElse(body.matricule, NULL)]
           fileRow == [id |-> NextId(fileSeq, {f.id : f \in project_files}),
                       project_id |-> projectId,
                       file_path |-> "/uploads/" \o file]
       IN  /\ IF n >= 1
                THEN projects' = projects \cup {row} /\ projectSeq' = projectId
              ELSE UNCHANGED <<projects, projectSeq>>
           /\ IF n >= 2 /\ file # UNDEF
                THEN project_files' = project_files \cup {fileRow} /\ fileSeq' = fileRow.id
              ELSE UNCHANGED <<project_files, fileSeq>>
           /\ resp' = [op |-> "createProject", status |-> 500,
                       body |-> ErrorBody("Failed to create project"),
                       id |-> projectId, done |-> n]
    /\ UNCHANGED <<backend, envVars, authVars, reviews, reviewSeq, histVars>>

-----------------------------------------------------------------------------
(* POST /projects/:id/reviews                                              *)

\* the ratings of the requests, in half points: absent or 0, 2.5, 3, 5, 6
Ratings == {0, 5, 6, 10, 12}
\* the comments of the requests
Comments == {UNDEF, "", "ok"}

\* !rating || rating < 1 || rating > 5
RatingRejected(rating) == rating = 0 \/ rating < 2 \/ rating > 10

\* A handler that stores the comment as it was sent.
CommentAsSent(comment) == comment

\* comment || null
StoredComment(comment) == OrElse(comment, NULL)

\* A lookup of the caller's review that forgets the project.
ExistingReviewOfCaller(projectId, reviewerId) ==
    {r \in reviews : r.reviewer_id = reviewerId}

\* SELECT * FROM reviews WHERE project_id = ? AND reviewer_id = ?
ExistingReview(projectId, reviewerId) ==
    {r \in reviews : r.project_id = projectId /\ r.reviewer_id = reviewerId}

\* The last accepted submission of each pair, after one more.
Submitted(projectId, reviewerId, rating, comment) ==
    {s \in lastSub : ~(s.project_id = projectId /\ s.reviewer_id = reviewerId)}
        \cup {[project_id |-> projectId, reviewer_id |-> reviewerId,
               rating |-> rating, comment |-> comment]}

PostReview(cred, id, rating, comment) ==
    /\ Serving
    /\ Authenticated(cred)
    /\ IF RatingRejected(rating)
         THEN /\ resp' = [op |-> "postReview", status |-> 400,
                          body |-> ErrorBody("Rating must be between 1 and 5")]
              /\ UNCHANGED <<reviews, reviewSeq, lastSub>>
       ELSE IF ProjectById(id) = {}
         THEN /\ resp' = [op |-> "postReview", status |-> 404,
                          body |-> ErrorBody("Project not found")]
              /\ UNCHANGED <<reviews, reviewSeq, lastSub>>
       ELSE IF ExistingReview(id, cred.id) # {}
         THEN \E existingReview \in ExistingReview(id, cred.id) :
                LET row == [existingReview EXCEPT !.rating = rating,
                                                  !.comment = StoredComment(comment)]
                IN  /\ reviews' = {IF r.id = existingReview.id THEN row ELSE r : r \in reviews}
                    /\ lastSub' = Submitted(id, cred.id, rating, comment)
                    /\ resp' = [op |-> "postReview", status |-> 200,
                                body |-> [message |-> "Review updated successfully"]]
                    /\ UNCHANGED reviewSeq
       ELSE LET row == [id |-> NextId(reviewSeq, {r.id : r \in reviews}),
                        project_id |-> id, reviewer_id |-> cred.id,
                        rating |-> rating, comment |-> StoredComment(comment)]
            IN  /\ reviewSeq < MaxReviews
                /\ IF \/ UserById(cred.id) = {}
                      \/ \E r \in reviews : r.project_id = id /\ r.reviewer_id = cred.id
                     THEN \* FOREIGN KEY (reviewer_id), UNIQUE(project_id, reviewer_id):
                          \* the INSERT throws
                          /\ resp' = [op |-> "postReview", status |-> 500,
                                      body |-> ErrorBody("Failed to add review")]
                          /\ UNCHANGED <<reviews, reviewSeq, lastSub>>
                     ELSE /\ reviews' = reviews \cup {row}
                          /\ reviewSeq' = row.id
                          /\ lastSub' = Submitted(id, cred.id, rating, comment)
                          /\ resp' = [op |-> "postReview", status |-> 201,
                                      body |-> [message |-> "Review added successfully"]]
    /\ UNCHANGED <<backend, envVars, authVars, projects, projectSeq, project_files, fileSeq,
                   deleted, loginSeen>>

-----------------------------------------------------------------------------
(* The service after start-up, and the auth and profile routes.            *)

\* No call of a storage helper yet.
NoCall == [fn |-> "none"]

\* A deployment without any of the object-storage variables.
NoStorage ==
    /\ cloudEnv = [CLOUDINARY_CLOUD_NAME |-> FALSE, credentials |-> FALSE,
                   CLOUDINARY_URL |-> FALSE]
    /\ cloudUp = TRUE
    /\ cloudObjects = {}
    /\ call = NoCall

-----------------------------------------------------------------------------
(* The object-storage helpers (utils/cloudinary.js).                       *)

\* Date.now() is one of 1..MaxClock
MaxClock == 2

\* the userId an upload is made for
UploadUsers == {1, 2}

\* public_id: `user-${userId}-${Date.now()}`
PublicId(userId, now) == "user-" \o ToString(userId) \o "-" \o ToString(now)

PublicIds == {PublicId(userId, now) : userId \in UploadUsers, now \in 1..MaxClock}

\* The name the storage keeps an avatar under: folder and public id.
StoredAs(publicId) == "tic-projects/avatars/" \o publicId

\* result.secure_url of an upload
SecureUrl(publicId) ==
    "https://res.cloudinary.com/demo/image/upload/" \o StoredAs(publicId) \o ".png"

\* the url argument of deleteFromCloudinary
DeleteUrls ==
    {UNDEF, NULL, "", "me.png", "/uploads/avatars/me.png", "https://res.cloudinary.com/"}
        \cup {SecureUrl(publicId) : publicId \in PublicIds}

\* url.split("/")
Segments(url) ==
    IF \E publicId \in PublicIds : url = SecureUrl(publicId)
      THEN LET publicId == CHOOSE x \in PublicIds : url = SecureUrl(x)
           IN  <<"https:", "", "res.cloudinary.com", "demo", "image", "upload",
                 "tic-projects", "avatars", publicId \o ".png">>
    ELSE CASE url = "me.png" -> <<"me.png">>
           [] url = "/uploads/avatars/me.png" -> <<"", "uploads", "avatars", "me.png">>
           [] url = "https://res.cloudinary.com/" -> <<"https:", "", "res.cloudinary.com", "">>

\* segment.split(".")[0]
BeforeDot(segment) ==
    IF \E publicId \in PublicIds : segment = publicId \o ".png"
      THEN CHOOSE x \in PublicIds : segment = x \o ".png"
    ELSE CASE segment = "me.png" -> "me"

\* url.match(/\/([^/]+)$/): the group matched, NULL when there is no match.
\* The match needs a "/" and at least one character after the last one.
LastSegmentMatch(url) ==
    LET segments == Segments(url)
    IN  IF Len(segments) >= 2 /\ segments[Len(segments)] # ""
          THEN segments[Len(segments)]
        ELSE NULL

\* A call of cloudinary.uploader.* succeeds when the SDK holds the three
\* credentials (cloudinary.config has run) and the storage answers.
SdkCallSucceeds == cloudEnv.CLOUDINARY_CLOUD_NAME /\ cloudEnv.credentials /\ cloudUp

\* How the promise of uploadToCloudinary settles when upload_stream calls
\* back with an error: reject(error) runs in the promise that the try block
\* returned without awaiting it, so the catch does not see the rejection.
UploadFailureSettles == "rejected"

\* Without the try/catch around the await of destroy.
DestroyFailurePropagates == "rejected"

\* How the promise of deleteFromCloudinary settles when destroy fails: the
\* await is inside the try, the catch logs.
DestroyFailureSettles == "resolved"

\* uploadToCloudinary(buffer, mimetype, userId) with Date.now() = now
UploadToCloudinary(userId, now) ==
    /\ proc = "running"
    /\ IF ~cloudEnv.CLOUDINARY_CLOUD_NAME
         THEN /\ call' = [fn |-> "upload", arg |-> ToString(userId), sdkCalls |-> 0,
                          failed |-> FALSE, settled |-> "resolved", value |-> NULL]
              /\ UNCHANGED cloudObjects
       ELSE IF SdkCallSucceeds
         THEN /\ call' = [fn |-> "upload", arg |-> ToString(userId), sdkCalls |-> 1,
                          failed |-> FALSE, settled |-> "resolved",
                          value |-> SecureUrl(PublicId(userId, now))]
              /\ cloudObjects' = cloudObjects \cup {StoredAs(PublicId(userId, now))}
       ELSE /\ call' = [fn |-> "upload", arg |-> ToString(userId), sdkCalls |-> 1,
                        failed |-> TRUE, settled |-> UploadFailureSettles,
                        value |-> IF UploadFailureSettles = "resolved" THEN NULL
                                  ELSE "error"]
            /\ UNCHANGED cloudObjects
    /\ UNCHANGED <<dataVars, resp, nodeEnv, proc, listening, boot, reachable, checkedOut,
                   cloudEnv, cloudUp>>

\* deleteFromCloudinary(url)
DeleteFromCloudinary(url) ==
    /\ proc = "running"
    /\ IF ~cloudEnv.CLOUDINARY_CLOUD_NAME \/ Falsy(url)
         THEN /\ call' = [fn |-> "delete", arg |-> url, sdkCalls |-> 0,
                          failed |-> FALSE, settled |-> "resolved", value |-> UNDEF]
              /\ UNCHANGED cloudObjects
       ELSE IF LastSegmentMatch(url) = NULL
         THEN /\ call' = [fn |-> "delete", arg |-> url, sdkCalls |-> 0,
                          failed |-> FALSE, settled |-> "resolved", value |-> UNDEF]
              /\ UNCHANGED cloudObjects
       ELSE IF SdkCallSucceeds
         THEN \* destroy resolves, with "ok" or with "not found"
              /\ call' = [fn |-> "delete", arg |-> url, sdkCalls |-> 1,
                          failed |-> FALSE, settled |-> "resolved", value |-> UNDEF]
              /\ cloudObjects' = cloudObjects \ {StoredAs(BeforeDot(LastSegmentMatch(url)))}
       ELSE /\ call' = [fn |-> "delete", arg |-> url, sdkCalls |-> 1,
                        failed |-> TRUE, settled |-> DestroyFailureSettles,
                        value |-> IF DestroyFailureSettles = "resolved" THEN UNDEF
                                  ELSE "error"]
            /\ UNCHANGED cloudObjects
    /\ UNCHANGED <<dataVars, resp, nodeEnv, proc, listening, boot, reachable, checkedOut,
                   cloudEnv, cloudUp>>

\* The object storage stops answering, or answers again.
CloudDown ==
    /\ cloudUp
    /\ cloudUp' = FALSE
    /\ UNCHANGED <<dataVars, resp, nodeEnv, proc, listening, boot, reachable, checkedOut,
                   cloudEnv, cloudObjects, call>>

CloudUp ==
    /\ ~cloudUp
    /\ cloudUp' = TRUE
    /\ UNCHANGED <<dataVars, resp, nodeEnv, proc, listening, boot, reachable, checkedOut,
                   cloudEnv, cloudObjects, call>>

Backends == {"embedded", "networked"}

NoResponse == [op |-> "none", status |-> 0]

\* The process in production after a start-up in which the schema bootstrap
\* succeeded, with the backend reachable.
Running ==
    /\ nodeEnv = "production"
    /\ proc = "running"
    /\ listening = TRUE
    /\ boot = "done"
    /\ reachable = TRUE
    /\ checkedOut = 0

Started == Running /\ NoStorage

Init ==
    /\ backend \in Backends
    /\ users = {}
    /\ userSeq = 0
    /\ projects = {}
    /\ projectSeq = 0
    /\ project_files = {}
    /\ fileSeq = 0
    /\ reviews = {}
    /\ reviewSeq = 0
    /\ tokens = {}
    /\ pending = EmptyBag
    /\ resp = NoResponse
    /\ lastSub = {}
    /\ deleted = {}
    /\ loginSeen = {}
    /\ Started

Register(usernames, emails, passwords) ==
    \/ \E username \in usernames, email \in emails, password \in passwords :
          RegisterBegin(username, email, password)
    \/ \E p \in Suspended : RegisterFinish(p)

Login ==
    \/ \E email \in Idents, password \in Passwords : LoginBegin(email, password)
    \/ \E p \in Suspended : LoginFinish(p)

PutMe(bodies, files) ==
    \/ \E cred \in Credentials : Unauthenticated("putMe", cred)
    \/ \E cred \in Credentials, body \in bodies, file \in files :
          PutMeEmbedded(cred, body, file)
    \/ \E cred \in Credentials, body \in bodies, file \in files :
          NetPutMeBegin(cred, body, file)
    \/ \E p \in Suspended : NetPutMeCheck(p)
    \/ \E p \in Suspended : NetPutMeUpdate(p)
    \/ \E p \in Suspended : NetPutMeRespond(p)

\* What the networked handler answers and what it leaves in the table users
\* when the backend answers and no other request runs between its queries.
NetPutMeOutcome(cred, body, file) ==
    IF Falsy(body.username) \/ TrimIsEmpty(body.username)
      THEN [resp |-> [op |-> "putMe", status |-> 400,
                      body |-> ErrorBody("Username is required")],
            users |-> users]
    ELSE IF UserById(cred.id) = {}
      THEN [resp |-> [op |-> "putMe", status |-> 404, body |-> ErrorBody("User not found")],
            users |-> users]
    ELSE LET currentUser == CHOOSE u \in UserById(cred.id) : TRUE
             row == ProfileUpdateRow(currentUser, currentUser, body,
                                     NetProfilePicture(currentUser, file))
         IN  IF /\ body.username # currentUser.username
                /\ UsernameTakenByOther(body.username, cred.id)
               THEN [resp |-> [op |-> "putMe", status |-> 400,
                               body |-> ErrorBody("Username already taken")],
                     users |-> users]
             ELSE IF UsersUniqueViolated(row)
               THEN [resp |-> NetPutMeFailed, users |-> users]
             ELSE [resp |-> [op |-> "putMe", status |-> 200,
                             body |-> [message |-> "Profile updated successfully",
                                       user |-> PrivateProfile(row)]],
                   users |-> (users \ {currentUser}) \cup {row}]

\* PUT /users/me of the networked user router.
NetPutMe(bodies, files) ==
    \/ \E cred \in Credentials : Unauthenticated("putMe", cred)
    \/ \E cred \in Credentials, body \in bodies, file \in files :
          NetPutMeBegin(cred, body, file)
    \/ \E p \in Suspended : NetPutMeCheck(p)
    \/ \E p \in Suspended : NetPutMeUpdate(p)
    \/ \E p \in Suspended : NetPutMeRespond(p)

InitEmbedded == Init /\ backend = "embedded"

\* The auth routes on the embedded backend, every registration with its
\* three fields present.
NextAuth == Register(Idents \ {UNDEF}, Idents \ {UNDEF}, Passwords) \/ Login
SpecAuth == InitEmbedded /\ [][NextAuth]_vars

\* Registration and profile updates, on either backend.
NextProfile == Register(Idents, Idents, {"secret"}) \/ PutMe(ProfileBodies, {UNDEF})
SpecProfile == Init /\ [][NextProfile]_vars

\* Registration and GET /auth/me with a token of the service, a forged or
\* expired one, or none.
NextMe ==
    \/ Register({"a@b.c", "c@d.e"}, {"a@b.c", "c@d.e"}, {"secret"})
    \/ \E header \in tokens \cup {NoToken, ForgedToken, ExpiredToken} : GetAuthMe(header)
SpecMe == InitEmbedded /\ [][NextMe]_vars

\* Two users as POST /auth/register leaves them, with the tokens it returned.
Alice == [id |-> 1, username |-> "a@b.c", email |-> "c@d.e",
          password |-> BcryptHash("secret"), full_name |-> NULL,
          profile_picture |-> NULL, bio |-> NULL]
Bob == [id |-> 2, username |-> "c@d.e", email |-> "a@b.c",
        password |-> BcryptHash("hunter2"), full_name |-> NULL,
        profile_picture |-> NULL, bio |-> NULL]

\* The embedded service once Alice, then Bob, have registered: a state of
\* SpecAuth, and the one from which the project routes are explored.
InitProj ==
    /\ backend = "embedded"
    /\ users = {Alice, Bob}
    /\ userSeq = 2
    /\ projects = {}
    /\ projectSeq = 0
    /\ project_files = {}
    /\ fileSeq = 0
    /\ reviews = {}
    /\ reviewSeq = 0
    /\ tokens = {JwtSign(u.id, u.username, u.email) : u \in {Alice, Bob}}
    /\ pending = EmptyBag
    /\ resp = [op |-> "register", status |-> 201,
               body |-> [message |-> "Registration successful",
                         token |-> JwtSign(Bob.id, Bob.username, Bob.email),
                         user |-> [id |-> Bob.id, username |-> Bob.username,
                                   email |-> Bob.email]],
               insertTried |-> TRUE, heldAtInsert |-> FALSE]
    /\ lastSub = {}
    /\ deleted = {}
    /\ loginSeen = {}
    /\ Started

-----------------------------------------------------------------------------
(* Start-up: initializeSchema of the pool module, app.listen of the server, *)
(* and the networked backend coming and going.                             *)

\* max: 5, the number of clients of the pool
PoolMax == 5

NodeEnvs == {"development", "production", "unset"}

\* the awaits of initializeSchema, in order: pool.connect(), then one
\* client.query per table
BootAwaits == {"connect", "users", "projects", "reviews", "project_files"}

\* where initializeSchema is after the await `at' has resolved
BootNext(at) ==
    CASE at = "connect" -> "users"
      [] at = "users" -> "projects"
      [] at = "projects" -> "reviews"
      [] at = "reviews" -> "project_files"
      [] at = "project_files" -> "done"

\* A catch block that ends the process in every configuration.
ExitsAlways(env) == TRUE

\* process.env.NODE_ENV === 'development'
ExitsOnBootFailure(env) == env = "development"

\* initializeSchema resumes from the await it is suspended at: the promise
\* resolved, or it rejected and the catch block runs.
\* pool.connect() hands out a client (const client = await pool.connect());
\* client.release(), which follows the last CREATE TABLE, gives it back.  The
\* catch block releases nothing.
BootStep ==
    /\ proc = "running"
    /\ boot \in BootAwaits
    /\ IF reachable
         THEN /\ boot' = BootNext(boot)
              /\ checkedOut' = CASE boot = "connect" -> checkedOut + 1
                                  [] boot = "project_files" -> checkedOut - 1
                                  [] OTHER -> checkedOut
              /\ UNCHANGED proc
         ELSE /\ boot' = "failed"
              /\ proc' = IF ExitsOnBootFailure(nodeEnv) THEN "exited" ELSE "running"
              /\ UNCHANGED checkedOut
    /\ UNCHANGED <<dataVars, resp, nodeEnv, listening, reachable, cloudVars>>

\* app.listen(PORT, "0.0.0.0", ...)
Listen ==
    /\ proc = "running"
    /\ ~listening
    /\ listening' = TRUE
    /\ UNCHANGED <<dataVars, resp, nodeEnv, proc, boot, reachable, checkedOut, cloudVars>>

\* GET /api
GetApi ==
    /\ Serving
    /\ resp' = [op |-> "api", status |-> 200,
                body |-> [message |-> "TIC Projects Platform API is running",
                          version |-> "1.0.0"]]
    /\ UNCHANGED <<dataVars, envVars>>

\* The networked backend stops answering, or answers again.
BackendDown ==
    /\ reachable
    /\ reachable' = FALSE
    /\ UNCHANGED <<dataVars, resp, nodeEnv, proc, listening, boot, checkedOut, cloudVars>>

BackendUp ==
    /\ ~reachable
    /\ reachable' = TRUE
    /\ UNCHANGED <<dataVars, resp, nodeEnv, proc, listening, boot, checkedOut, cloudVars>>

\* A networked database that an earlier run created the tables of and two
\* users registered in, `rows' being the two rows of users; no request yet.
NetData(rows) ==
    /\ backend = "networked"
    /\ users = rows
    /\ userSeq = 2
    /\ projects = {}
    /\ projectSeq = 0
    /\ project_files = {}
    /\ fileSeq = 0
    /\ reviews = {}
    /\ reviewSeq = 0
    /\ tokens = {JwtSign(u.id, u.username, u.email) : u \in {Alice, Bob}}
    /\ pending = EmptyBag
    /\ resp = NoResponse
    /\ lastSub = {}
    /\ deleted = {}
    /\ loginSeen = {}

\* The process as the pool module has been loaded: initializeSchema has been
\* called and is suspended at pool.connect(), the server does not listen yet.
InitBoot ==
    /\ NetData({Alice, Bob})
    /\ nodeEnv \in NodeEnvs
    /\ proc = "running"
    /\ listening = FALSE
    /\ boot = "connect"
    /\ reachable \in BOOLEAN
    /\ checkedOut = 0
    /\ NoStorage

-----------------------------------------------------------------------------
(* The read routes of the networked user router.                           *)

\* the q of GET /users/search?q=
SearchQueries == {UNDEF, "a", "B.", "bob"}

\* the :id of GET /users/:id: the ids of the users, and one of no user
UserIds == 1..3

Lower(c) == CASE c = "A" -> "a" [] c = "B" -> "b" [] OTHER -> c

\* text ILIKE '%q%', for a q without the wildcards % and _ ; NULL ILIKE ...
\* is not true.
ILike(text, q) ==
    /\ text # NULL
    /\ LET hay == Chars(text)
           needle == Chars(q)
       IN  \E i \in 0..(Len(hay) - Len(needle)) :
             \A k \in 1..Len(needle) : Lower(hay[i + k]) = Lower(needle[k])

\* SELECT id, username, full_name, profile_picture, bio, created_at
PublicProfile(u) ==
    [id |-> u.id, username |-> u.username, full_name |-> u.full_name,
     profile_picture |-> u.profile_picture, bio |-> u.bio]

\* GET /users/search.  (LIMIT 20: the table never holds that many rows.)
NetSearch(q) ==
    /\ Serving
    /\ backend = "networked"
    /\ IF Falsy(q) \/ Len(Chars(q)) < 2
         THEN resp' = [op |-> "search", status |-> 200, body |-> [users |-> {}]]
       ELSE IF QueryRejects
         THEN resp' = [op |-> "search", status |-> 500,
                       body |-> ErrorBody("Failed to search users")]
       ELSE resp' = [op |-> "search", status |-> 200,
                     body |-> [users |-> {PublicProfile(u) : u \in
                                  {x \in users : ILike(x.username, q) \/ ILike(x.full_name, q)}}]]
    /\ UNCHANGED <<dataVars, envVars>>

\* GET /users/me, behind the middleware.
NetGetMe(cred) ==
    /\ Serving
    /\ backend = "networked"
    /\ Authenticated(cred)
    /\ IF QueryRejects
         THEN resp' = [op |-> "getMe", status |-> 500,
                       body |-> ErrorBody("Failed to fetch profile")]
       ELSE IF UserById(cred.id) = {}
         THEN resp' = [op |-> "getMe", status |-> 404, body |-> ErrorBody("User not found")]
       ELSE \E u \in UserById(cred.id) :
              resp' = [op |-> "getMe", status |-> 200, body |-> [user |-> PrivateProfile(u)]]
    /\ UNCHANGED <<dataVars, envVars>>

NetGetUserFailed ==
    [op |-> "getUser", status |-> 500, body |-> ErrorBody("Failed to fetch user")]

\* GET /users/:id up to the result of the first query.
NetGetUserBegin(id) ==
    /\ Serving
    /\ backend = "networked"
    /\ CanSuspend
    /\ IF QueryRejects
         THEN /\ resp' = NetGetUserFailed
              /\ UNCHANGED pending
       ELSE IF UserById(id) = {}
         THEN /\ resp' = [op |-> "getUser", status |-> 404,
                          body |-> ErrorBody("User not found")]
              /\ UNCHANGED pending
       ELSE /\ \E u \in UserById(id) :
                 pending' = Suspend([op |-> "getUser", id |-> id, user |-> PublicProfile(u),
                                     at |-> "projects"])
            /\ UNCHANGED resp
    /\ UNCHANGED <<backend, envVars, users, userSeq, tokens, projVars, histVars>>

\* SELECT projects.*, project_files.file_path, COALESCE(AVG(...), 0),
\* COUNT(reviews.id) ... WHERE projects.author_id = $1
\* GROUP BY projects.id, project_files.file_path
UserProjectRows(id) ==
    UNION { { [project |-> pr,
               file_path |-> IF f = NoRow THEN NULL ELSE f.file_path,
               avg_rating |-> IF ReviewsOf(pr.id) = {} THEN [num |-> 0, den |-> 1]
                              ELSE [num |-> SumRating({NoRow} \X ReviewsOf(pr.id)),
                                    den |-> Cardinality(ReviewsOf(pr.id))],
               review_count |-> Cardinality(ReviewsOf(pr.id))]
             : f \in IF FilesOf(pr.id) = {} THEN {NoRow} ELSE FilesOf(pr.id) }
          : pr \in {x \in projects : x.author_id = id} }

\* GET /users/:id from the result of the second query.
NetGetUserProjects(p) ==
    /\ Serving
    /\ p.op = "getUser"
    /\ p.at = "projects"
    /\ IF QueryRejects
         THEN resp' = NetGetUserFailed
       ELSE resp' = [op |-> "getUser", status |-> 200,
                     body |-> [user |-> p.user, projects |-> UserProjectRows(p.id)]]
    /\ pending' = Resume(p)
    /\ UNCHANGED <<backend, envVars, users, userSeq, tokens, projVars, histVars>>

UserReads ==
    \/ \E q \in SearchQueries : NetSearch(q)
    \/ \E cred \in Credentials : Unauthenticated("getMe", cred)
    \/ \E cred \in Credentials : NetGetMe(cred)
    \/ \E id \in UserIds : NetGetUserBegin(id)
    \/ \E p \in Suspended : NetGetUserProjects(p)

\* The networked service from the load of its modules on: start-up, the
\* backend going away and coming back, and the user routes.
NextNet ==
    \/ BootStep
    \/ Listen
    \/ GetApi
    \/ BackendDown
    \/ BackendUp
    \/ UserReads
    \/ NetPutMe({[username |-> "bob", full_name |-> "Al", bio |-> UNDEF],
                 [username |-> UNDEF, full_name |-> UNDEF, bio |-> "hi"]}, {UNDEF})
SpecNet == InitBoot /\ [][NextNet]_vars

\* The object-storage helpers called for any user, at any time, with the
\* storage configured fully, in part or not at all, answering or not.
InitCloud ==
    /\ NetData({Alice, Bob})
    /\ Running
    /\ cloudEnv \in [CLOUDINARY_CLOUD_NAME : BOOLEAN, credentials : BOOLEAN,
                      CLOUDINARY_URL : {FALSE}]
    /\ cloudUp \in BOOLEAN
    /\ cloudObjects = {}
    /\ call = NoCall

NextCloud ==
    \/ \E userId \in UploadUsers, now \in 1..MaxClock : UploadToCloudinary(userId, now)
    \/ \E url \in DeleteUrls : DeleteFromCloudinary(url)
    \/ CloudDown
    \/ CloudUp
SpecCloud == InitCloud /\ [][NextCloud]_vars

\* The picture Alice's row refers to before any request of SpecAvatar.
OldPicture == "/uploads/avatars/old.png"

\* PUT /users/me of the networked router with and without an avatar, with
\* and without CLOUDINARY_URL; Alice has a profile picture, Bob has none.
InitAvatar ==
    /\ NetData({[Alice EXCEPT !.profile_picture = OldPicture], Bob})
    /\ Running
    /\ cloudEnv \in [CLOUDINARY_CLOUD_NAME : {FALSE}, credentials : {FALSE},
                      CLOUDINARY_URL : BOOLEAN]
    /\ cloudUp = TRUE
    /\ cloudObjects = {}
    /\ call = NoCall

NextAvatar == NetPutMe(ProfileBodies, AvatarFiles)
SpecAvatar == InitAvatar /\ [][NextAvatar]_vars

Projects(bodies, files) ==
    \/ \E id \in ProjectIds : GetProject(id)
    \/ \E section \in SectionFilters, group \in GroupFilters : ListProjects(section, group)
    \/ \E cred \in Credentials :
          \E op \in {"createProject", "updateProject", "deleteProject"} :
              Unauthenticated(op, cred)
    \/ \E cred \in Credentials, body \in bodies, file \in files :
          CreateProject(cred, body, file)
    \/ \E cred \in Credentials, id \in ProjectIds, body \in bodies :
          UpdateProject(cred, id, body)
    \/ \E cred \in Credentials, id \in ProjectIds : DeleteProject(cred, id)

Reviews(ratings, comments) ==
    \/ \E cred \in Credentials : Unauthenticated("postReview", cred)
    \/ \E cred \in Credentials, id \in ProjectIds, rating \in ratings, comment \in comments :
          PostReview(cred, id, rating, comment)

\* The project routes called by two registered users, with one rating.
NextProj ==
    \/ Projects({b \in ProjectBodies : Len(b.title) >= 3}, ProjectFiles)
    \/ Reviews({6}, {UNDEF})
SpecProj == InitProj /\ [][NextProj]_vars

\* the ratings and comments of the review requests below: absent, 3 and 5;
\* empty and not
SomeRatings == {0, 6, 10}
SomeComments == {"", "ok"}

\* The review route called by two registered users, on projects without
\* attachment that are created and deleted.
NextReview ==
    \/ \E cred \in Credentials : \E op \in {"createProject", "deleteProject"} :
          Unauthenticated(op, cred)
    \/ \E cred \in Credentials :
          CreateProject(cred, CHOOSE b \in ProjectBodies : b.section = UNDEF, UNDEF)
    \/ \E cred \in Credentials, id \in ProjectIds : DeleteProject(cred, id)
    \/ Reviews(SomeRatings, SomeComments)
SpecReview == InitProj /\ [][NextReview]_vars

\* The two read routes, on projects that are created, reviewed and deleted.
NextRead ==
    \/ \E id \in ProjectIds : GetProject(id)
    \/ \E section \in SectionFilters, group \in GroupFilters : ListProjects(section, group)
    \/ \E cred \in Credentials : \E op \in {"createProject", "deleteProject"} :
          Unauthenticated(op, cred)
    \/ \E cred \in Credentials, file \in ProjectFiles :
          CreateProject(cred, CHOOSE b \in ProjectBodies : b.section = "A" /\ Len(b.title) >= 3,
                        file)
    \/ \E cred \in Credentials, id \in ProjectIds : DeleteProject(cred, id)
    \/ Reviews(SomeRatings, {"ok"})
SpecRead == InitProj /\ [][NextRead]_vars

\* The review route with every rating of Ratings, on projects without
\* attachment.
NextRating ==
    \/ \E cred \in Credentials : Unauthenticated("createProject", cred)
    \/ \E cred \in Credentials :
          CreateProject(cred, CHOOSE b \in ProjectBodies : b.section = UNDEF, UNDEF)
    \/ Reviews(Ratings, {"ok"})
SpecRating == InitProj /\ [][NextRating]_vars

\* The routes that write the project tables, each also with one of its
\* statements failing.
NextIntegrity ==
    \/ \E cred \in Credentials : \E op \in {"createProject", "deleteProject"} :
          Unauthenticated(op, cred)
    \/ \E cred \in Credentials, file \in ProjectFiles :
          CreateProject(cred, CHOOSE b \in ProjectBodies : b.section = "A" /\ Len(b.title) >= 3,
                        file)
    \/ \E cred \in Credentials, file \in ProjectFiles, n \in 0..2 :
          CreateProjectFailing(cred,
                               CHOOSE b \in ProjectBodies : b.section = "A" /\ Len(b.title) >= 3,
                               file, n)
    \/ \E cred \in Credentials, id \in ProjectIds : DeleteProject(cred, id)
    \/ \E cred \in Credentials, id \in ProjectIds, n \in 0..2 :
          DeleteProjectFailing(cred, id, n)
    \/ Reviews({6}, {"ok"})
SpecIntegrity == InitProj /\ [][NextIntegrity]_vars

\* The project routes with every body of ProjectBodies, on projects without
\* attachment.
NextEdit == Projects(ProjectBodies, {UNDEF})
SpecEdit == InitProj /\ [][NextEdit]_vars

-----------------------------------------------------------------------------
(* The read routes of the embedded routers that answer with rows of users  *)
(* or of reviews.                                                          *)

\* SELECT reviews.*, users.username, users.profile_picture FROM reviews
\* JOIN users ON users.id = reviews.reviewer_id WHERE reviews.project_id = ?
ReviewRows(id) ==
    UNION { { [id |-> r.id, project_id |-> r.project_id, reviewer_id |-> r.reviewer_id,
               rating |-> r.rating, comment |-> r.comment,
               username |-> u.username, profile_picture |-> u.profile_picture]
              : u \in {x \in users : x.id = r.reviewer_id} }
          : r \in ReviewsOf(id) }

\* GET /projects/:id/reviews.  (The order of the list is not modelled.)
ListReviews(id) ==
    /\ Serving
    /\ resp' = [op |-> "listReviews", status |-> 200, body |-> [reviews |-> ReviewRows(id)]]
    /\ UNCHANGED <<dataVars, envVars>>

\* GET /projects/:id/my-review, behind the middleware: review || null
MyReview(cred, id) ==
    /\ Serving
    /\ Authenticated(cred)
    /\ LET mine == {r \in ReviewsOf(id) : r.reviewer_id = cred.id}
       IN  IF mine = {}
             THEN resp' = [op |-> "myReview", status |-> 200, body |-> [review |-> NoRow]]
           ELSE \E r \in mine :
                  resp' = [op |-> "myReview", status |-> 200, body |-> [review |-> r]]
    /\ UNCHANGED <<dataVars, envVars>>

\* GET /users/search of the embedded router: LIKE folds the case of ASCII
\* letters, as ILIKE does.
EmbSearch(q) ==
    /\ Serving
    /\ backend = "embedded"
    /\ IF Falsy(q) \/ Len(Chars(q)) < 2
         THEN resp' = [op |-> "search", status |-> 200, body |-> [users |-> {}]]
       ELSE resp' = [op |-> "search", status |-> 200,
                     body |-> [users |-> {PublicProfile(u) : u \in
                                  {x \in users : ILike(x.username, q) \/ ILike(x.full_name, q)}}]]
    /\ UNCHANGED <<dataVars, envVars>>

\* GET /users/me of the embedded router, behind the middleware.
EmbGetMe(cred) ==
    /\ Serving
    /\ backend = "embedded"
    /\ Authenticated(cred)
    /\ IF UserById(cred.id) = {}
         THEN resp' = [op |-> "getMe", status |-> 404, body |-> ErrorBody("User not found")]
       ELSE \E u \in UserById(cred.id) :
              resp' = [op |-> "getMe", status |-> 200, body |-> [user |-> PrivateProfile(u)]]
    /\ UNCHANGED <<dataVars, envVars>>

\* SELECT projects.*, project_files.file_path, COALESCE(AVG(...), 0),
\* COUNT(reviews.id) ... WHERE projects.author_id = ? GROUP BY projects.id:
\* the rows the query can give for project pr, the bare column file_path
\* being taken from one row of the group.
AuthoredRows(pr) ==
    { [project |-> pr,
       file_path |-> IF j[1] = NoRow THEN NULL ELSE j[1].file_path,
       avg_rating |-> AvgRating(pr.id), review_count |-> ReviewCount(pr.id)]
      : j \in Joined(pr.id) }

\* GET /users/:id of the embedded router.
EmbGetUser(id) ==
    /\ Serving
    /\ backend = "embedded"
    /\ IF UserById(id) = {}
         THEN resp' = [op |-> "getUser", status |-> 404, body |-> ErrorBody("User not found")]
       ELSE LET authored == {pr \in projects : pr.author_id = id}
            IN  \E u \in UserById(id) :
                \E pick \in [authored -> UNION {AuthoredRows(pr) : pr \in authored}] :
                  /\ \A pr \in authored : pick[pr] \in AuthoredRows(pr)
                  /\ resp' = [op |-> "getUser", status |-> 200,
                              body |-> [user |-> PublicProfile(u),
                                        projects |-> {pick[pr] : pr \in authored}]]
    /\ UNCHANGED <<dataVars, envVars>>

\* Either backend once Alice has registered.
InitExpose ==
    /\ backend \in Backends
    /\ users = {Alice}
    /\ userSeq = 1
    /\ projects = {}
    /\ projectSeq = 0
    /\ project_files = {}
    /\ fileSeq = 0
    /\ reviews = {}
    /\ reviewSeq = 0
    /\ tokens = {JwtSign(Alice.id, Alice.username, Alice.email)}
    /\ pending = EmptyBag
    /\ resp = NoResponse
    /\ lastSub = {}
    /\ deleted = {}
    /\ loginSeen = {}
    /\ Started

\* The routes that answer with data of users: a second user can register,
\* both can log in and change their profile; Alice, with the token of her
\* registration, can publish projects and review the first.
NextExpose ==
    \/ Register({"c@d.e"}, {"a@b.c"}, {"hunter2"})
    \/ \E email \in {"a@b.c"}, password \in {"secret", "hunter2"} : LoginBegin(email, password)
    \/ \E p \in Suspended : LoginFinish(p)
    \/ \E header \in tokens \cup {NoToken} : GetAuthMe(header)
    \/ \E cred \in Credentials : Unauthenticated("getMe", cred)
    \/ \E cred \in Credentials :
          PutMeEmbedded(cred, [username |-> "bob", full_name |-> "Al", bio |-> UNDEF], "me.png")
    \/ \E cred \in Credentials :
          NetPutMeBegin(cred, [username |-> "bob", full_name |-> "Al", bio |-> UNDEF], "me.png")
    \/ \E p \in Suspended : NetPutMeCheck(p)
    \/ \E p \in Suspended : NetPutMeUpdate(p)
    \/ \E p \in Suspended : NetPutMeRespond(p)
    \/ \E q \in {"bob", "B."} : EmbSearch(q)
    \/ \E cred \in Credentials : EmbGetMe(cred)
    \/ \E id \in UserIds : EmbGetUser(id)
    \/ \E q \in {"bob", "B."} : NetSearch(q)
    \/ \E cred \in Credentials : NetGetMe(cred)
    \/ \E id \in UserIds : NetGetUserBegin(id)
    \/ \E p \in Suspended : NetGetUserProjects(p)
    \/ CreateProject(JwtSign(Alice.id, Alice.username, Alice.email),
                     CHOOSE b \in ProjectBodies : b.section = "A" /\ Len(b.title) >= 3,
                     "project-1.pdf")
    \/ PostReview(JwtSign(Alice.id, Alice.username, Alice.email), 1, 6, "ok")
    \/ GetProject(1)
    \/ ListProjects(UNDEF, UNDEF)
    \/ ListReviews(1)
    \/ \E cred \in Credentials : MyReview(cred, 1)
SpecExpose == InitExpose /\ [][NextExpose]_vars

\* Every route, from the empty database.
Next ==
    \/ Register(Idents, Idents, Passwords)
    \/ Login
    \/ PutMe(ProfileBodies, AvatarFiles)
    \/ Projects(ProjectBodies, ProjectFiles)
    \/ Reviews(Ratings, Comments)
Spec == Init /\ [][Next]_vars

-----------------------------------------------------------------------------
(* Properties of the auth and profile routes.                              *)

\* The rows of the four tables and their id sequences.
stored == <<users, userSeq, projects, projectSeq, project_files, fileSeq,
            reviews, reviewSeq>>

\* C5: a registration that passed validation and whose username or email is
\* held by a stored user when its INSERT is attempted is answered 409.
C5_ConflictAtInsertIs409 ==
    (resp.op = "register" /\ resp.insertTried /\ resp.heldAtInsert) => resp.status = 409

\* C6: no two rows of users share a username, and no two share an email.
C6_UsernameAndEmailUnique ==
    \A u \in users : \A v \in users :
        u # v => (u.username # v.username /\ u.email # v.email)

\* C6 witness: two users are stored and an UPDATE that would have given one
\* the other's username, past the handler's own check, has been refused.
C6_Witness ==
    /\ Cardinality(users) = 2
    /\ backend = "networked"
    /\ resp.op = "putMe" /\ resp.status = 500

\* C7: a successful registration adds exactly one row to users, and the
\* token it returns carries that row's id, username and email and no other
\* row's id; a successful login returns a token that carries the id,
\* username and email of the row it matched and verified the password of.
C7_TokenIdentifiesUser ==
    [][ /\ \A p \in Suspended :
             (resp'.status = 201 /\ RegisterFinish(p)) =>
                 \E row \in users' :
                     /\ row \notin users
                     /\ users' = users \cup {row}
                     /\ resp'.body.token.sig = "valid"
                     /\ resp'.body.token.id = row.id
                     /\ resp'.body.token.username = row.username
                     /\ resp'.body.token.email = row.email
                     /\ \A u \in users' : u # row => u.id # resp'.body.token.id
        /\ \A p \in Suspended :
             (resp'.status = 200 /\ LoginFinish(p)) =>
                 /\ p.user \in users
                 /\ p.user.email = p.req.email \/ p.user.username = p.req.email
                 /\ p.user.password = BcryptHash(p.req.password)
                 /\ resp'.body.token.sig = "valid"
                 /\ resp'.body.token.id = p.user.id
                 /\ resp'.body.token.username = p.user.username
                 /\ resp'.body.token.email = p.user.email
      ]_vars

\* C7 witness: with two users registered, a login has succeeded.
C7_Witness ==
    /\ Cardinality(users) = 2
    /\ resp.op = "login" /\ resp.status = 200

\* C8: a login rejected because no row matched the identifier and a login
\* rejected because the password was wrong are answered with the same
\* status, 401, and the same body, and a rejected login leaves the stored
\* rows as they were.
C8_LoginRejectionsAlike ==
    [][ /\ \A a \in loginSeen' : \A b \in loginSeen' :
             (a.why = "unknown" /\ b.why = "wrong password") =>
                 (a.status = 401 /\ a.status = b.status /\ a.body = b.body)
        /\ \/ stored' = stored
           \/ /\ \A email \in Idents, password \in Passwords :
                    ~(LoginBegin(email, password) /\ resp' # resp)
              /\ \A p \in Suspended : ~(LoginFinish(p) /\ resp'.status = 401)
      ]_vars

\* C8 witness: both kinds of rejection have been sent.
C8_Witness ==
    {a.why : a \in loginSeen} = {"unknown", "wrong password"}

\* C9: a login with a stored user's email or username as the identifier
\* and that user's password succeeds and issues a token for that user's id.
C9_OwnCredentialsLogIn ==
    resp.op = "login" =>
        \A id \in resp.rightful : resp.status = 200 /\ resp.body.token.id = id

-----------------------------------------------------------------------------
(* Properties of the project and review routes.                            *)

\* The reviews stored for the pair of submission s.
C1_RowsOf(s) ==
    {r \in reviews : r.project_id = s.project_id /\ r.reviewer_id = s.reviewer_id}

\* C1 as stated: the Review set holds exactly one row for each (project,
\* reviewer) pair that has an accepted submission, and no other row, and the
\* row's rating and comment equal the values of the pair's most recent
\* accepted submission (an absent comment being no comment, null).
C1_CommentAsSubmitted ==
    /\ \A s \in lastSub :
         \E row \in reviews :
             /\ C1_RowsOf(s) = {row}
             /\ row.rating = s.rating
             /\ row.comment = (IF s.comment = UNDEF THEN NULL ELSE s.comment)
    /\ \A r \in reviews : \E s \in lastSub : r \in C1_RowsOf(s)

\* C1: the Review set holds exactly one row for each (project, reviewer)
\* pair that has an accepted submission, and no other row; the row's rating
\* equals the rating of the pair's most recent accepted submission and its
\* comment equals that submission's comment, an empty or absent comment
\* being stored as null.
C1_OneRowWithLastValues ==
    /\ \A s \in lastSub :
         \E row \in reviews :
             /\ C1_RowsOf(s) = {row}
             /\ row.rating = s.rating
             /\ row.comment = (IF s.comment \in {UNDEF, ""} THEN NULL ELSE s.comment)
    /\ \A r \in reviews : \E s \in lastSub : r \in C1_RowsOf(s)

\* C1 witness: two rows are stored, the last comment of a pair was empty,
\* and a resubmission has been answered as an update.
C1_Witness ==
    /\ resp.op = "postReview" /\ resp.status = 200
    /\ \E s \in lastSub : s.comment = ""
    /\ Cardinality(reviews) = 2

RECURSIVE C2_Sum(_)
C2_Sum(rows) ==
    IF rows = {} THEN 0
    ELSE LET r == CHOOSE x \in rows : TRUE IN r.rating + C2_Sum(rows \ {r})

\* avg_rating and review_count of summary row `row' are the mean and the
\* number of the reviews stored for project `id'.
C2_Agrees(row, id) ==
    LET n == Cardinality(ReviewsOf(id))
    IN  /\ row.review_count = n
        /\ n = 0 => row.avg_rating = [num |-> 0, den |-> 1]
        /\ n > 0 => /\ row.avg_rating.den > 0
                    /\ row.avg_rating.num * n = C2_Sum(ReviewsOf(id)) * row.avg_rating.den
        /\ {r.rating : r \in ReviewsOf(id)} = {6, 10} =>
               (row.avg_rating.num = 8 * row.avg_rating.den /\ row.review_count = 2)

\* C2: in every state, the avg_rating and review_count that GET /projects/:id
\* and GET /projects return for a project are the arithmetic mean and the
\* number of the reviews stored for it, avg_rating being exactly 0 when it
\* has none, whether or not the project has an attachment; ratings 3 and 5
\* give average 4 and count 2.
C2_AggregatesMatchReviews ==
    /\ \A id \in ProjectIds : \A r \in GetProjectResponses(id) :
           r.status = 200 => C2_Agrees(r.body.project, id)
    /\ \A p \in projects : \A row \in ProjectSummaries(p) : C2_Agrees(row, p.id)

\* C2 witness: GET /projects/:id has returned a project that has an
\* attachment and two reviews, of ratings 3 and 5.
C2_Witness ==
    /\ resp.op = "getProject" /\ resp.status = 200
    /\ resp \in GetProjectResponses(resp.id)
    /\ FilesOf(resp.id) # {}
    /\ {r.rating : r \in ReviewsOf(resp.id)} = {6, 10}

\* C3: PUT and DELETE /projects/:id by an authenticated user who is not the
\* author of the existing project are answered 403 and leave every stored
\* row as it was; on an id no project has they are answered 404, whoever
\* asks; a project row changes or disappears only in a PUT or DELETE sent
\* by its author, and while the project is stored its attachments stay and
\* its reviews change only by a review submission.
C3_OnlyAuthorWrites ==
    [][ /\ \A cred \in tokens, id \in ProjectIds :
             (\/ resp'.op = "updateProject" /\ \E body \in ProjectBodies : UpdateProject(cred, id, body)
              \/ resp'.op = "deleteProject" /\ DeleteProject(cred, id))
             => /\ ProjectById(id) = {} => (resp'.status = 404 /\ stored' = stored)
                /\ \A p \in ProjectById(id) :
                       p.author_id # cred.id => (resp'.status = 403 /\ stored' = stored)
        /\ \A p \in projects :
             p \notin projects' =>
                 \E cred \in tokens :
                     /\ cred.id = p.author_id
                     /\ \/ \E body \in ProjectBodies : UpdateProject(cred, p.id, body)
                        \/ DeleteProject(cred, p.id)
        /\ \A id \in ProjectIds :
             (ProjectById(id) # {} /\ ProjectById(id)' # {}) =>
                 /\ FilesOf(id)' = FilesOf(id)
                 /\ ReviewsOf(id)' = ReviewsOf(id) \/ resp'.op = "postReview"
      ]_vars

\* C3 witness: a DELETE of a project that has a review and an attachment,
\* sent by a user who is not its author, has been refused.
C3_Witness ==
    /\ resp.op = "deleteProject" /\ resp.status = 403
    /\ \E p \in projects : FilesOf(p.id) # {} /\ ReviewsOf(p.id) # {}

\* C4: a successful DELETE /projects/:id removes the project row, its
\* reviews and its attachments and leaves the rows of other projects as they
\* were; from then on no row carries that project id and GET /projects/:id
\* for it is answered 404.
C4_DeletedStaysGone ==
    [][ /\ \A cred \in tokens, id \in ProjectIds :
             (resp'.op = "deleteProject" /\ resp'.status = 200 /\ DeleteProject(cred, id))
             => /\ id \in deleted'
                /\ projects' = {p \in projects : p.id # id}
                /\ project_files' = {f \in project_files : f.project_id # id}
                /\ reviews' = {r \in reviews : r.project_id # id}
                /\ users' = users
        /\ \A id \in deleted' :
             /\ ProjectById(id)' = {}
             /\ FilesOf(id)' = {}
             /\ ReviewsOf(id)' = {}
             /\ \A r \in GetProjectResponses(id)' : r.status = 404
      ]_vars

\* C4 witness: a project was deleted, another project is stored, and a later
\* GET of the deleted id has been answered 404.
C4_Witness ==
    /\ deleted # {}
    /\ projects # {}
    /\ resp.op = "getProject" /\ resp.id \in deleted /\ resp.status = 404

\* C10: for each (project, reviewer) pair the first accepted submission is
\* answered 201 and adds one row with a new id; each later accepted
\* submission of the pair is answered 200 and overwrites rating and comment
\* of that row, which keeps its id, project id and reviewer id, and changes
\* no other row; a submission on the id of a deleted project adds and
\* changes nothing and, its rating being in range, is answered 404.
C10_InsertThenUpdate ==
    [][ \A cred \in tokens, id \in ProjectIds, rating \in SomeRatings, comment \in SomeComments :
          (resp'.op = "postReview" /\ PostReview(cred, id, rating, comment))
          => LET had == \E s \in lastSub : s.project_id = id /\ s.reviewer_id = cred.id
                 accepted == resp'.status \in {200, 201}
             IN  /\ (accepted /\ ~had) =>
                       /\ resp'.status = 201
                       /\ \E row \in reviews' :
                            /\ reviews' = reviews \cup {row}
                            /\ row.id \notin {r.id : r \in reviews}
                            /\ row.project_id = id /\ row.reviewer_id = cred.id
                 /\ (accepted /\ had) =>
                       /\ resp'.status = 200
                       /\ \E old \in reviews :
                            /\ old.project_id = id /\ old.reviewer_id = cred.id
                            /\ reviews' = (reviews \ {old}) \cup
                                   {[id |-> old.id, project_id |-> id, reviewer_id |-> cred.id,
                                     rating |-> rating,
                                     comment |-> IF comment \in {UNDEF, ""} THEN NULL
                                                 ELSE comment]}
                 /\ ~accepted => reviews' = reviews
                 /\ id \in deleted =>
                       /\ reviews' = reviews
                       /\ resp'.status = IF rating \in 2..10 THEN 404 ELSE 400
      ]_vars

\* C10 witness: a project has been deleted, and on another a pair's later
\* submission has been answered as an update.
C10_Witness ==
    /\ resp.op = "postReview" /\ resp.status = 200
    /\ deleted # {}
    /\ reviews # {}

-----------------------------------------------------------------------------
(* Properties of the validation of reviews and projects.                   *)

\* the ratings 1, 2, 3, 4 and 5, in half points
C11_IntegerRatings == {2, 4, 6, 8, 10}

\* C11: a review submission whose rating is not an integer from 1 to 5 is
\* answered 400 and leaves the reviews as they were, and every stored review
\* has an integer rating from 1 to 5.
C11_RatingIsInteger1To5 ==
    /\ \A r \in reviews : r.rating \in C11_IntegerRatings
    /\ \A s \in lastSub : s.rating \in C11_IntegerRatings

\* C12: every stored project has a title of at least 3 characters and a
\* description of at least 10 characters.
C12_TitleAndDescriptionLengths ==
    \A p \in projects : Len(p.title) >= 3 /\ Len(p.description) >= 10

\* The value a column takes from a body field: null when the field is absent.
C13_Carried(v) == IF v = UNDEF THEN NULL ELSE v

\* C13: a PUT /projects/:id answered 200 was sent by the author and leaves
\* the project with the six editable fields as the request carries them, a
\* field the request omits becoming null, and with the id and author it had;
\* reviews, attachments, users and every other project stay as they were.
C13_UpdateReplacesAllFields ==
    [][ \A cred \in tokens, id \in ProjectIds, body \in ProjectBodies :
          (resp'.op = "updateProject" /\ resp'.status = 200 /\ UpdateProject(cred, id, body))
          => \E old \in projects :
                /\ old.id = id /\ old.author_id = cred.id
                /\ projects' = (projects \ {old}) \cup
                       {[id |-> old.id, author_id |-> old.author_id,
                         title |-> C13_Carried(body.title),
                         description |-> C13_Carried(body.description),
                         section |-> C13_Carried(body.section),
                         group_number |-> C13_Carried(body.group_number),
                         full_name |-> C13_Carried(body.full_name),
                         matricule |-> C13_Carried(body.matricule)]}
                /\ reviews' = reviews
                /\ project_files' = project_files
                /\ users' = users
      ]_vars

\* C13 witness: an update has been answered 200 and a project that has a
\* review and an attachment is stored without section.
C13_Witness ==
    /\ resp.op = "updateProject" /\ resp.status = 200
    /\ \E p \in projects : p.section = NULL /\ FilesOf(p.id) # {} /\ ReviewsOf(p.id) # {}

-----------------------------------------------------------------------------
(* Properties of GET /auth/me.                                             *)

\* C14: GET /auth/me is answered 401 when no token is supplied and when the
\* token supplied does not verify, and answers with a profile only for a
\* token that verifies, the profile being the stored user of the token's id.
C14_AuthMeRejectsWith401 ==
    resp.op = "authMe" =>
        /\ resp.presented # "valid" => resp.status = 401
        /\ resp.status = 200 =>
              /\ resp.presented = "valid"
              /\ \E u \in users : /\ resp.body.user.id = u.id
                                  /\ resp.body.user.username = u.username
                                  /\ resp.body.user.email = u.email

-----------------------------------------------------------------------------
(* C15: When the schema bootstrap fails (at the connection or at any CREATE
   TABLE), the process exits if NODE_ENV is development and keeps running in
   every other configuration, where the server, once listening, still
   answers; and the server starts listening whether or not the bootstrap
   has finished.  Under SpecNet. *)
C15_BootFailureExitsOnlyInDevelopment ==
    /\ boot = "failed" => (proc = "exited" <=> nodeEnv = "development")
    /\ proc = "exited" => boot = "failed"
    /\ (proc = "running" /\ listening) => ENABLED GetApi
    /\ (proc = "running" /\ ~listening) => ENABLED Listen

\* The bootstrap has failed outside development; the process still runs, the
\* server listens, and a GET /users/me is the last request it answered.
C15_Witness ==
    /\ boot = "failed"
    /\ nodeEnv # "development"
    /\ Serving
    /\ resp.op = "getMe"

(* C16: While the backend is unreachable, each step of GET /users/search
   (q of 2 characters or more), GET /users/me, GET /users/:id and
   PUT /users/me (with a username) that runs a query answers 503.
   Under SpecNet. *)
C16_UnreachableAnswers503 ==
    [][ (/\ ~reachable
         /\ resp' # resp
         /\ \/ \E q \in SearchQueries \ {UNDEF, "a"} : NetSearch(q)
            \/ \E cred \in tokens : NetGetMe(cred)
            \/ \E id \in UserIds : NetGetUserBegin(id)
            \/ \E p \in Suspended : NetGetUserProjects(p)
            \/ \E cred \in tokens : NetPutMeBegin(cred, [username |-> "bob", full_name |-> "Al", bio |-> UNDEF], UNDEF)
            \/ \E p \in Suspended : NetPutMeCheck(p) \/ NetPutMeUpdate(p) \/ NetPutMeRespond(p))
        => resp'.status = 503 ]_vars

(* C17: uploadToCloudinary always resolves, never rejects: to the URL of
   the uploaded file when the upload succeeds, to null when
   CLOUDINARY_CLOUD_NAME is not set (and then without calling the storage)
   and to null when the upload fails.  Under SpecCloud. *)
C17_UploadResolvesUrlOrNull ==
    call.fn = "upload" =>
        /\ call.settled = "resolved"
        /\ ~cloudEnv.CLOUDINARY_CLOUD_NAME => (call.sdkCalls = 0 /\ call.value = NULL)
        /\ call.failed => call.value = NULL
        /\ (call.sdkCalls = 1 /\ ~call.failed) =>
              \E publicId \in PublicIds : call.value = SecureUrl(publicId)

(* C18: deleteFromCloudinary resolves for every url (absent, null, empty,
   without a last path segment, of an object the storage holds or does not
   hold) whether the storage fails or not; and it does not call the storage
   when CLOUDINARY_CLOUD_NAME is not set or the url is empty or absent.
   Under SpecCloud. *)
C18_DeleteNeverRejects ==
    call.fn = "delete" =>
        /\ call.settled = "resolved"
        /\ (~cloudEnv.CLOUDINARY_CLOUD_NAME \/ Falsy(call.arg)) => call.sdkCalls = 0

\* A deletion of the URL of an avatar has called the storage, the call has
\* failed, and the helper has resolved.
C18_Witness ==
    /\ call.fn = "delete"
    /\ call.sdkCalls = 1
    /\ call.failed
    /\ call.settled = "resolved"
    /\ \E publicId \in PublicIds : call.arg = SecureUrl(publicId)

(* C19: On the networked backend no step changes the profile_picture of a
   stored user; and a PUT /users/me that carries an avatar while
   CLOUDINARY_URL is not set writes, at its UPDATE, the username, full_name
   and bio of the body (a field left out keeping the value read), and
   answers 200 with the picture the row had.  Under SpecAvatar. *)
C19_AvatarWithoutStorageKeepsPicture ==
    [][ /\ \A u \in users, v \in users' :
              u.id = v.id => v.profile_picture = u.profile_picture
        /\ \A p \in Suspended :
              (p.op = "putMe" /\ p.req.file # UNDEF /\ ~cloudEnv.CLOUDINARY_URL) =>
                /\ (/\ p.at = "update"
                    /\ pending' = Suspend([p EXCEPT !.at = "respond"]) (-) SetToBag({p})) =>
                      \E v \in users' :
                        /\ v.id = p.cred.id
                        /\ v.username = p.req.body.username
                        /\ v.full_name = IF p.req.body.full_name = UNDEF
                                           THEN p.currentUser.full_name
                                         ELSE p.req.body.full_name
                        /\ v.bio = IF p.req.body.bio = UNDEF THEN p.currentUser.bio
                                   ELSE p.req.body.bio
                /\ (p.at = "respond" /\ pending' = Resume(p)) =>
                      /\ resp'.status = 200
                      /\ \E u \in users :
                            /\ u.id = p.cred.id
                            /\ resp'.body.user.profile_picture = u.profile_picture
                            /\ resp'.body.user.username = u.username
      ]_vars

\* A request of Alice with an avatar and the full_name "Al", without
\* CLOUDINARY_URL, has run its UPDATE: her row has the new name and the old
\* picture.
C19_Witness ==
    /\ ~cloudEnv.CLOUDINARY_URL
    /\ \E p \in Suspended :
          /\ p.op = "putMe" /\ p.at = "respond"
          /\ p.req.file # UNDEF
          /\ p.req.body.full_name = "Al"
          /\ \E u \in users :
                /\ u.id = p.cred.id
                /\ u.username = "bob"
                /\ u.full_name = "Al"
                /\ u.profile_picture = OldPicture

(* C20: In every state, for every caller with a token, every body and every
   avatar (or none), the embedded handler and the networked handler of
   PUT /users/me, run on the users stored, answer with the same status and
   leave the same rows.  Under SpecProfile. *)
C20_SameOutcomeOnEitherBackend ==
    \A cred \in tokens, body \in ProfileBodies, file \in AvatarFiles :
        /\ PutMeEmbeddedOutcome(cred, body, file).resp.status
              = NetPutMeOutcome(cred, body, file).resp.status
        /\ PutMeEmbeddedOutcome(cred, body, file).users
              = NetPutMeOutcome(cred, body, file).users

-----------------------------------------------------------------------------
(* Properties of what the responses expose.                                *)

\* The JSON objects of a response: its body and the objects nested in it.
ObjectsOf(r) ==
    IF r.op = "none" THEN {}
    ELSE LET b == r.body
             has(f) == f \in DOMAIN b
         IN  {b}
             \cup (IF has("user") THEN {b.user} ELSE {})
             \cup (IF has("token") THEN {b.token} ELSE {})
             \cup (IF has("users") THEN b.users ELSE {})
             \cup (IF has("project") THEN {b.project} ELSE {})
             \cup (IF has("projects") THEN b.projects ELSE {})
             \cup (IF has("projects") /\ r.op = "getUser"
                     THEN {row.project : row \in b.projects} ELSE {})
             \cup (IF has("reviews") THEN b.reviews ELSE {})
             \cup (IF has("review") THEN {b.review} ELSE {})

\* the fields of those objects that hold text
TextFields ==
    {"error", "details", "message", "version", "username", "email", "full_name",
     "profile_picture", "bio", "title", "description", "section", "group_number",
     "matricule", "author_name", "file_path", "comment", "sig"}

\* the stored hashes, and the passwords of the requests in clear
Secrets == {u.password : u \in users} \cup Passwords

(* C21: No object of a response has a field named password, and no text
   field of a response holds a stored password hash or a password in clear.
   Under SpecExpose. *)
C21_NoPasswordInResponses ==
    \A obj \in ObjectsOf(resp) :
        /\ "password" \notin DOMAIN obj
        /\ \A f \in DOMAIN obj \cap TextFields : obj[f] \notin Secrets

\* A response carries the row of a stored user, who has a password hash, as
\* GET or PUT /users/me selects it.
C21_Witness ==
    /\ resp.op \in {"getMe", "putMe"}
    /\ resp.status = 200
    /\ \E u \in users :
          /\ u.password = BcryptHash("hunter2")
          /\ resp.body.user = PrivateProfile(u)

-----------------------------------------------------------------------------
(* Referential integrity.                                                  *)

(* C22: In every state, the states left by a DELETE /projects/:id or a
   POST /projects that failed at one of its statements included, every
   review and every attachment refers to a stored project, and every
   project's author and every review's reviewer is a stored user.
   Under SpecIntegrity. *)
C22_ReferencesResolve ==
    /\ \A r \in reviews :
          /\ \E p \in projects : p.id = r.project_id
          /\ \E u \in users : u.id = r.reviewer_id
    /\ \A f \in project_files : \E p \in projects : p.id = f.project_id
    /\ \A p \in projects : \E u \in users : u.id = p.author_id

\* A DELETE has failed after it deleted the reviews of a project: the
\* project and its attachment are still stored.
C22_Witness ==
    /\ resp.op = "deleteProject"
    /\ resp.status = 500
    /\ resp.done = 1
    /\ resp.reviewsDeleted >= 1
    /\ ProjectById(resp.id) # {}
    /\ FilesOf(resp.id) # {}
    /\ ReviewsOf(resp.id) = {}

-----------------------------------------------------------------------------
(* The connection pool.                                                    *)

(* C23: Once initializeSchema has ended, with success or with a failure, in
   a process that still runs, it holds no client of the pool: all PoolMax
   clients are available.  Under SpecNet. *)
C23_BootReleasesItsClient ==
    (proc = "running" /\ boot \in {"done", "failed"}) => PoolMax - checkedOut = PoolMax

=============================================================================
